---- MODULE Spec2Model ----
(***************************************************************************)
(* beanhub-extract: the extractor contract {detect, fingerprint, extract}, *)
(* the registry ALL_EXTRACTORS with detect_extractor, and the format       *)
(* plugins under beanhub_extract/extractors, as a state machine over one   *)
(* seekable input stream.                                                  *)
(*                                                                         *)
(* Representation of Python values:                                        *)
(*   - None is <<>> and a present optional value v is <<v>>;               *)
(*   - a date is a day number >= 1; a date STRING of the source is the day *)
(*     number it spells, 0 when its digits spell no date ("32/13/2025"),   *)
(*     -1 when it is empty or holds no digits ("", "invalid-date");        *)
(*   - a decimal is an integer number of cents; an amount STRING of the    *)
(*     source is [k, v]: k = "plain" for "12.34" (v = 1234, so "0.00" is   *)
(*     plain 0), "dollar" for "$1,234.56", "bad" for text that is no       *)
(*     number, "empty" for "";                                             *)
(*   - the stream position counts lines (records) from the start of the    *)
(*     file; every modelled file is shorter than the 1000 characters the   *)
(*     OFX sniffers read.                                                  *)
(***************************************************************************)
EXTENDS Integers, Sequences, FiniteSets, TLC

VARIABLES input_file, last

vars == <<input_file, last>>

None == <<>>
Some(v) == <<v>>

Range(seq) == {seq[i] : i \in 1..Len(seq)}

Min(a, b) == IF a <= b THEN a ELSE b

(***************************************************************************)
(* Bounds of the model.                                                    *)
(***************************************************************************)
\* Longest list of data rows (CSV rows, STMTTRN elements, PDF matches) of the
\* files that are enumerated in full; the files of three rows are listed one by one.
MaxRows == 2

(***************************************************************************)
(* Source text.                                                            *)
(***************************************************************************)
Plain(v) == [k |-> "plain", v |-> v]
Dollar(v) == [k |-> "dollar", v |-> v]
BadAmount == [k |-> "bad", v |-> 0]
EmptyAmount == [k |-> "empty", v |-> 0]

\* "0.00", the one spelling of zero the plugins compare amount strings with.
IsZeroText(t) == t.k = "plain" /\ t.v = 0

\* A data row of a source: a CSV row, a STMTTRN element, a PDF match, a BAC
\* credit transaction line (kind "card" is a card grouping line, kind "comment"
\* a DOCFCU row whose description is COMMENT).  date is -1 for a date field
\* that is empty or holds no digits; id is the row's own identifier
\* (Transaction ID, Transaction Number, FITID, document number); name is the
\* row's description (NAME, or MEMO of an investment transaction): None where
\* the element is absent, Some("") where it is there without text.
Row(kind, date, amt, amt2, bal, acct) ==
    [kind |-> kind, date |-> date, amt |-> amt, amt2 |-> amt2, bal |-> bal, acct |-> acct,
     id |-> "T1", name |-> Some("N")]

\* Statement-level data: the account, the currency, the reported ending balance
\* (bal; bal2 is the second currency of a BAC credit header), its as-of date,
\* whether a transaction list element is present, and the rows.
Stmt(acct, cur, bal, bal2, asof, hasList, txns) ==
    [acct |-> acct, cur |-> cur, bal |-> bal, bal2 |-> bal2, asof |-> asof,
     hasList |-> hasList, txns |-> txns]

\* A file: header is the list of fields of line 1 (delim-separated), header4 the
\* one of line 4, pre the number of lines before the first data row, marks the
\* marker substrings its text contains, fails whether reading it raises, and
\* ofxtools what OFXTree.parse()/convert() make of the stream: "raises", or
\* "elements" for a tree that answers find().
File(layout, mode, header, delim, header4, pre, marks, stmts) ==
    [layout |-> layout, mode |-> mode, fails |-> FALSE, header |-> header,
     delim |-> delim, header4 |-> header4, pre |-> pre, marks |-> marks,
     stmts |-> stmts, ofxtools |-> "raises"]

RECURSIVE CountRows(_)
CountRows(stmts) ==
    IF stmts = <<>> THEN 0 ELSE Len(Head(stmts).txns) + CountRows(Tail(stmts))

\* Number of lines of the file: the end-of-file position.
Size(c) == c.pre + CountRows(c.stmts)

(***************************************************************************)
(* The stream: io seek/read on [content, pos].  A read returns what lies   *)
(* between pos and the end of the file.                                    *)
(***************************************************************************)
seek(s, offset) == [s EXCEPT !.pos = offset]

\* read(): [exc, s]; the caller sees the whole text only from position 0.
read(s) ==
    IF s.content.fails THEN [exc |-> TRUE, s |-> s]
    ELSE [exc |-> FALSE, s |-> [s EXCEPT !.pos = Size(s.content)]]

\* Whether the text read from position pos still holds the file's start
\* (its header lines and markers).
AtStart(s) == s.pos = 0

\* The markers in the text a read at s.pos returns.
MarksRead(s) == IF AtStart(s) THEN s.content.marks ELSE {}

\* The data rows of statement st a reader at s.pos still gets: the rows
\* whose line lies at or after pos.
RowsRead(s, st) ==
    LET skip == IF s.pos > s.content.pre THEN s.pos - s.content.pre ELSE 0
    IN  IF skip >= Len(st.txns) THEN <<>>
        ELSE SubSeq(st.txns, skip + 1, Len(st.txns))

\* next(reader) on the header line, as csv.DictReader.fieldnames does it:
\* [exc, fields, s]; fields is <<>> (None) at the end of the file, and a data
\* line read as a header is no plugin's header.
ReadFieldnames(s) ==
    IF s.content.fails \/ s.content.mode = "binary"
    THEN [exc |-> TRUE, fields |-> <<>>, s |-> s]
    ELSE IF s.pos >= Size(s.content) THEN [exc |-> FALSE, fields |-> <<>>, s |-> s]
    ELSE [exc |-> FALSE,
          fields |-> IF AtStart(s) THEN s.content.header ELSE <<"(data)">>,
          s |-> [s EXCEPT !.pos = s.pos + 1]]

\* seek(0); content = read(...); seek(0), the sniff the detect() methods share:
\* [exc, marks, s].  A failed read leaves the position where seek(0) put it;
\* bytes read from a binary stream raise at the first "marker in content".
Sniff(s) ==
    LET s0 == seek(s, 0)
        r == read(s0)
    IN  IF r.exc \/ s.content.mode = "binary"
        THEN [exc |-> TRUE, marks |-> {}, s |-> s0]
        ELSE [exc |-> FALSE, marks |-> MarksRead(s0), s |-> seek(r.s, 0)]

\* What an operation hands back: whether it raised, its value, the stream after it.
Return(value, s) == [raised |-> FALSE, value |-> value, s |-> s]
Raise(value, s) == [raised |-> TRUE, value |-> value, s |-> s]

(***************************************************************************)
(* detect() of each plugin.                                                *)
(***************************************************************************)
WSECU_ALL_FIELDS ==
    <<"Account number", "Date", "Description", "Category", "Note", "Amount", "Balance">>

CREDIT_HUMAN_ALL_FIELDS ==
    <<"Account ID", "Transaction ID", "Date", "Description", "Check Number",
      "Category", "Tags", "Amount", "Balance">>

DOCFCU_EXPECTED_HEADERS ==
    <<"Transaction Number", "Date", "Description", "Memo", "Amount Debit",
      "Amount Credit", "Balance", "Check Number", "Fees ", "Principal ", "Interest">>

\* The header line of a Banco Nacional export, split at ";".
NACIONAL_HEADER ==
    <<"oficina", "fechaMovimiento", "numeroDocumento", "debito", "credito", "descripcion">>

\* detect() without its try/except: the exception of the header read escapes.
WSECUExtractor_detect_unguarded(s) ==
    LET r == ReadFieldnames(seek(s, 0))
    IN  IF r.exc THEN Raise(FALSE, r.s)
        ELSE Return(r.fields = WSECU_ALL_FIELDS, r.s)

WSECUExtractor_detect(s) ==
    LET r == ReadFieldnames(seek(s, 0))
    IN  IF r.exc THEN Return(FALSE, r.s)
        ELSE Return(r.fields = WSECU_ALL_FIELDS, r.s)

CreditHumanExtractor_detect(s) ==
    LET r == ReadFieldnames(seek(s, 0))
    IN  IF r.exc THEN Return(FALSE, r.s)
        ELSE Return(r.fields = CREDIT_HUMAN_ALL_FIELDS, r.s)

DocfcuExtractor_detect(s) ==
    LET s0 == seek(s, 0)
        r == read(s0)
        c == s.content
    IN  IF r.exc \/ c.mode = "binary" THEN Return(FALSE, r.s)
        ELSE IF Size(c) - s0.pos < 4 THEN Return(FALSE, r.s)
        ELSE IF ~(c.header # <<>> /\ c.header[1] = "Account Name :") THEN Return(FALSE, r.s)
        ELSE Return(c.header4 = DOCFCU_EXPECTED_HEADERS, r.s)

AllyBankOFXExtractor_detect(s) ==
    LET t == Sniff(s)
    IN  IF t.exc THEN Return(FALSE, t.s)
        ELSE Return("OFXHEADER:" \in t.marks /\ "<OFX>" \in t.marks
                    /\ ("<ORG>Ally</ORG>" \in t.marks \/ "<FID>6157</FID>" \in t.marks), t.s)

CapitalOneOFXExtractor_detect(s) ==
    LET t == Sniff(s)
    IN  IF t.exc THEN Return(FALSE, t.s)
        ELSE Return("<?OFX" \in t.marks /\ "<OFX>" \in t.marks
                    /\ ("<ORG>C1</ORG>" \in t.marks \/ "<FID>1001</FID>" \in t.marks), t.s)

EtradeOFXExtractor_detect(s) ==
    LET t == Sniff(s)
    IN  IF t.exc THEN Return(FALSE, t.s)
        ELSE Return("OFXHEADER:" \in t.marks /\ "<OFX>" \in t.marks
                    /\ ("<ORG>E*TRADE" \in t.marks \/ "<BROKERID>etrade.com" \in t.marks), t.s)

LfcuOFXExtractor_detect(s) ==
    LET t == Sniff(s)
    IN  IF t.exc THEN Return(FALSE, t.s)
        ELSE Return("OFXHEADER:" \in t.marks /\ "<OFX>" \in t.marks
                    /\ ("<ORG>Lafayette Federal Credit Union</ORG>" \in t.marks
                        \/ "<FID>16710</FID>" \in t.marks), t.s)

\* The one sniffer that decodes bytes, so that a binary stream does not raise.
WsecuOFXExtractor_detect(s) ==
    LET s0 == seek(s, 0)
        r == read(s0)
        marks == MarksRead(s0)
    IN  IF r.exc THEN Return(FALSE, s0)
        ELSE Return(("OFXHEADER:" \in marks \/ "OFXHEADER=" \in marks) /\ "<OFX>" \in marks
                    /\ "<BANKID>325181028" \in marks, s0)

BacSanJoseCreditExtractor_detect(s) ==
    LET t == Sniff(s)
    IN  IF t.exc THEN Return(FALSE, t.s)
        ELSE Return("Pro000000000000duct" \in t.marks
                    /\ "Minimum payment/due date" \in t.marks
                    /\ "Cash payment/Due date" \in t.marks
                    /\ "Date, , Local, Dollars" \in t.marks, t.s)

BacSanJoseExtractor_detect(s) ==
    LET t == Sniff(s)
    IN  IF t.exc THEN Return(FALSE, t.s)
        ELSE Return("Detalle de Estado Bancario" \in t.marks
                    /\ "Fecha de Transaccion" \in t.marks
                    /\ "Referencia de Transaccion" \in t.marks
                    /\ "Codigo de Transaccion" \in t.marks, t.s)

BancoBcrExtractor_detect(s) ==
    LET t == Sniff(s)
    IN  IF t.exc THEN Return(FALSE, t.s)
        ELSE Return(("<html>" \in t.marks \/ "<body>" \in t.marks)
                    /\ "Banco de Costa Rica" \in t.marks
                    /\ "Movimientos de la cuenta" \in t.marks
                    /\ "Fecha contable" \in t.marks
                    /\ "Fecha transaccion" \in t.marks, t.s)

\* The header tests are made on line 1 alone, which the sniff reads at position 0.
BancoNacionalExtractor_detect(s) ==
    LET t == Sniff(s)
        c == s.content
    IN  IF t.exc THEN Return(FALSE, t.s)
        ELSE Return(c.delim = ";" /\ Len(c.header) > 1
                    /\ Range(NACIONAL_HEADER) \subseteq Range(c.header), t.s)

\* _extract_pdf_text: [text, s], text the markers of the extracted text, {} for
\* the "" every failure gives.  A text-mode stream is read through its path, a
\* binary one is handed to the PDF reader after seek(0), which leaves it at the
\* end of the file.
SynchronyPdfExtractor_extract_pdf_text(s) ==
    LET c == s.content
        isPdf == "%PDF-" \in c.marks
    IN  IF c.mode = "text"
        THEN [text |-> IF c.fails \/ ~isPdf THEN {} ELSE c.marks, s |-> s]
        ELSE LET s0 == seek(s, 0)
             IN  IF c.fails \/ c.mode # "binary" \/ ~isPdf
                 THEN [text |-> {}, s |-> s0]
                 ELSE [text |-> MarksRead(s0), s |-> [s0 EXCEPT !.pos = Size(c)]]

SynchronyPdfExtractor_detect(s) ==
    LET c == s.content
        isPdf == "%PDF-" \in c.marks
        synchrony(text) == "SYNCHRONYBANK.COM" \in text \/ "SYNCHRONY BANK" \in text
                           \/ "SYNCHRONY FINANCIAL" \in text
    IN  IF c.mode = "text"
        THEN IF c.fails \/ ~isPdf THEN Return(FALSE, s)
             ELSE LET x == SynchronyPdfExtractor_extract_pdf_text(s)
                  IN  Return(x.text # {} /\ synchrony(x.text), x.s)
        ELSE LET s0 == seek(s, 0)
             IN  IF c.fails \/ c.mode # "binary" \/ ~isPdf THEN Return(FALSE, s0)
                 ELSE LET x == SynchronyPdfExtractor_extract_pdf_text(s0)
                      IN  Return(x.text # {} /\ synchrony(x.text), x.s)

(***************************************************************************)
(* The registry and the auto-detector.                                     *)
(***************************************************************************)
\* The plugins whose modules are in the package.
SourcePlugins ==
    {"ally_bank_ofx", "bac_san_jose", "bac_san_jose_credit", "banco_bcr",
     "banco_nacional", "capital_one_ofx", "credit_human", "docfcu", "etrade_ofx",
     "lfcu_ofx", "synchrony_pdf", "wsecu", "wsecu_ofx"}

\* The registered plugins whose modules are imported from elsewhere.
ImportedPlugins ==
    {"bac_san_jose_bank", "mercury", "chase_credit_card", "credit_human_ofx",
     "plaid", "ussfcu_ofx", "wealthsimple", "csv"}

\* ALL_EXTRACTORS.values(), in registration order.
ALL_EXTRACTORS ==
    <<"ally_bank_ofx", "bac_san_jose_bank", "bac_san_jose_credit", "banco_bcr",
      "banco_nacional", "mercury", "chase_credit_card", "capital_one_ofx",
      "credit_human", "credit_human_ofx", "docfcu", "etrade_ofx", "lfcu_ofx",
      "plaid", "synchrony_pdf", "ussfcu_ofx", "wealthsimple", "wsecu", "csv">>

\* detect() of an imported plugin, by the contract of the extractor interface:
\* true exactly on text that carries the plugin's format, the position put
\* back, nothing raised.
ImportedExtractor_detect(p, s) ==
    Return(~s.content.fails /\ p \in s.content.marks, s)

detect(p, s) ==
    CASE p = "ally_bank_ofx" -> AllyBankOFXExtractor_detect(s)
      [] p = "bac_san_jose" -> BacSanJoseExtractor_detect(s)
      [] p = "bac_san_jose_credit" -> BacSanJoseCreditExtractor_detect(s)
      [] p = "banco_bcr" -> BancoBcrExtractor_detect(s)
      [] p = "banco_nacional" -> BancoNacionalExtractor_detect(s)
      [] p = "capital_one_ofx" -> CapitalOneOFXExtractor_detect(s)
      [] p = "credit_human" -> CreditHumanExtractor_detect(s)
      [] p = "docfcu" -> DocfcuExtractor_detect(s)
      [] p = "etrade_ofx" -> EtradeOFXExtractor_detect(s)
      [] p = "lfcu_ofx" -> LfcuOFXExtractor_detect(s)
      [] p = "synchrony_pdf" -> SynchronyPdfExtractor_detect(s)
      [] p = "wsecu" -> WSECUExtractor_detect(s)
      [] p = "wsecu_ofx" -> WsecuOFXExtractor_detect(s)
      [] OTHER -> ImportedExtractor_detect(p, s)

\* The loop of detect_extractor from the i-th registered plugin on.
RECURSIVE detect_from(_, _)
detect_from(i, s) ==
    IF i > Len(ALL_EXTRACTORS) THEN Return(None, s)
    ELSE LET r == detect(ALL_EXTRACTORS[i], seek(s, 0))
         IN  IF r.raised THEN Raise(None, r.s)
             ELSE IF r.value THEN Return(Some(ALL_EXTRACTORS[i]), r.s)
             ELSE detect_from(i + 1, r.s)

\* The loop that returns the last plugin that accepts, not the first.
RECURSIVE detect_last_from(_, _, _)
detect_last_from(i, s, found) ==
    IF i > Len(ALL_EXTRACTORS) THEN Return(found, s)
    ELSE LET r == detect(ALL_EXTRACTORS[i], seek(s, 0))
         IN  IF r.raised THEN Raise(None, r.s)
             ELSE IF r.value THEN detect_last_from(i + 1, r.s, Some(ALL_EXTRACTORS[i]))
             ELSE detect_last_from(i + 1, r.s, found)

detect_extractor_last(s) == detect_last_from(1, s, None)

detect_extractor(s) == detect_from(1, s)

(***************************************************************************)
(* Records and the conversions the plugins share.                          *)
(***************************************************************************)
\* data_types.Transaction with the fields the plugins differ in; the others
\* keep their default None.
Transaction(extractor) ==
    [extractor |-> extractor, lineno |-> 0, reversed_lineno |-> None,
     transaction_id |-> None, date |-> None, post_date |-> None, amount |-> 0,
     type |-> None, currency |-> None, source_account |-> None,
     last_four_digits |-> None, reference |-> None, desc |-> None]

\* A transaction_id: a source identifier ([tag "id", acct the identifier]) or
\* text formatted from a tag, a date, an account, a currency and an index.
TxnId(tag, date, acct, cur, n) ==
    [tag |-> tag, date |-> date, acct |-> acct, cur |-> cur, n |-> n]

\* data_types.Fingerprint.
Fingerprint(starting_date, first_row_hash) ==
    [starting_date |-> starting_date, first_row_hash |-> first_row_hash]

RECURSIVE Concat(_)
Concat(ss) == IF ss = <<>> THEN <<>> ELSE Head(ss) \o Concat(Tail(ss))

\* The text of a cell as the list of its pieces: nothing for "", and the
\* identifier "T1-" is the identifier "T1" followed by "-".
Chars(t) ==
    CASE t = "" -> <<>>
      [] t = "T1-" -> <<"T1", "-">>
      [] OTHER -> <<t>>

\* str() of a number, as the text of a date field.
Str(v) == <<ToString(v)>>

\* The text of an amount: the sign, a "$" where the source writes one, then
\* the digits.
AmountText(t) ==
    CASE t.k = "empty" -> <<>>
      [] t.k = "bad" -> <<"abc">>
      [] t.k = "plain" -> IF t.v < 0 THEN <<"-", ToString(0 - t.v)>> ELSE <<ToString(t.v)>>
      [] t.k = "dollar" -> IF t.v < 0 THEN <<"-", "$", ToString(0 - t.v)>>
                           ELSE <<"$", ToString(t.v)>>

\* A digest cut to half the length asked for.
hexdigest_half(parts, n) == [data |-> Concat(parts), len |-> n \div 2]

\* hashlib.sha256() fed the texts of the parts in order, then hexdigest()[:n]:
\* the digest of their concatenation, taken as injective on it.
hexdigest(parts, n) == [data |-> Concat(parts), len |-> n]

\* parse_date of every plugin: [exc, value]; text that spells no date raises
\* ValueError or IndexError.
parse_date(t) == [exc |-> t < 1, value |-> t]

\* decimal.Decimal(text): [exc, value], InvalidOperation on text that is no number.
Decimal(t) == [exc |-> t.k # "plain", value |-> t.v]

\* A loop over per-row outcomes [exc, out]: the records yielded up to the
\* first row that raises, and whether one did.
RunRows(outs) ==
    LET bad == {i \in 1..Len(outs) : outs[i].exc}
        k == IF bad = {} THEN 0 ELSE CHOOSE i \in bad : \A j \in bad : i <= j
        n == IF k = 0 THEN Len(outs) ELSE k - 1
    IN  [raised |-> k # 0, txns |-> Concat([i \in 1..n |-> outs[i].out])]

\* A row outcome: skipped, yielded, raised.
Skip == [exc |-> FALSE, out |-> <<>>]
Yield(t) == [exc |-> FALSE, out |-> <<t>>]
Throw == [exc |-> TRUE, out |-> <<>>]

\* csv.DictReader(input_file) read to its header: [exc, fields, rows, s].  rows
\* are the data rows a header with a Date column names; a binary stream raises.
DictReader(s) ==
    LET h == ReadFieldnames(s)
        c == s.content
    IN  [exc |-> h.exc, fields |-> h.fields,
         rows |-> IF h.exc \/ c.stmts = <<>> \/ "Date" \notin Range(h.fields) THEN <<>>
                  ELSE RowsRead(h.s, c.stmts[1]),
         s |-> h.s]

\* The first row with a date that parses, as the "most recent transaction"
\* helpers of the CSV plugins find it: [exc, row, s].  A header without a Date
\* column raises KeyError at the first data line.
FirstDatedRow(d) ==
    LET c == d.s.content
        valid == {i \in 1..Len(d.rows) : ~parse_date(d.rows[i].date).exc}
        i == CHOOSE x \in valid : \A y \in valid : x <= y
    IN  IF d.exc THEN [exc |-> TRUE, row |-> None, s |-> d.s]
        ELSE IF "Date" \notin Range(d.fields)
        THEN IF Size(c) > d.s.pos
             THEN [exc |-> TRUE, row |-> None, s |-> [d.s EXCEPT !.pos = d.s.pos + 1]]
             ELSE [exc |-> FALSE, row |-> None, s |-> d.s]
        ELSE IF valid = {}
        THEN [exc |-> FALSE, row |-> None, s |-> [d.s EXCEPT !.pos = Size(c)]]
        ELSE [exc |-> FALSE, row |-> Some(d.rows[i]), s |-> [d.s EXCEPT !.pos = d.s.pos + i]]

(***************************************************************************)
(* WSECU CSV.                                                              *)
(***************************************************************************)
\* The helper without its seek(0): it reads on from wherever the stream is.
WSECUExtractor_find_most_recent_transaction_noseek(s) ==
    FirstDatedRow(DictReader(s))

WSECUExtractor_find_most_recent_transaction(s) ==
    FirstDatedRow(DictReader(seek(s, 0)))

WSECUExtractor_fingerprint(s) ==
    LET m == WSECUExtractor_find_most_recent_transaction(s)
        h == ReadFieldnames(seek(m.s, 0))
        row == m.row[1]
    IN  IF m.exc THEN Return(None, m.s)
        ELSE IF m.row = None THEN Return(None, m.s)
        ELSE IF h.exc THEN Return(None, h.s)
        ELSE Return(Some(Fingerprint(parse_date(row.date).value,
                                     hexdigest(<<Chars(row.acct), Str(row.date), AmountText(row.amt),
                                                 AmountText(row.bal)>>, 64))), h.s)

\* _create_balance_transaction taking the Amount column for the balance.
WSECUExtractor_create_balance_transaction_from_amount(balance_row) ==
    LET d == parse_date(balance_row.date)
        a == Decimal(balance_row.amt)
    IN  IF d.exc \/ a.exc THEN Throw
        ELSE Yield([Transaction("wsecu") EXCEPT
                      !.desc = Some("Balance as of"),
                      !.lineno = 0,
                      !.transaction_id = Some(TxnId("BALANCE", d.value, balance_row.acct, "", 0)),
                      !.date = Some(d.value + 1), !.post_date = Some(d.value + 1),
                      !.amount = a.value, !.currency = Some("USD"),
                      !.type = Some("BALANCE"), !.source_account = Some(balance_row.acct)])

\* _create_balance_transaction: [exc, out].
WSECUExtractor_create_balance_transaction(balance_row) ==
    LET d == parse_date(balance_row.date)
        a == Decimal(balance_row.bal)
    IN  IF d.exc \/ a.exc THEN Throw
        ELSE Yield([Transaction("wsecu") EXCEPT
                      !.desc = Some("Balance as of"),
                      !.lineno = 0,
                      !.transaction_id = Some(TxnId("BALANCE", d.value, balance_row.acct, "", 0)),
                      !.date = Some(d.value + 1), !.post_date = Some(d.value + 1),
                      !.amount = a.value, !.currency = Some("USD"),
                      !.type = Some("BALANCE"), !.source_account = Some(balance_row.acct)])

\* __call__ with reversed_lineno counted from the top of the file.
WSECUExtractor_call_from_top(s) ==
    LET count == DictReader(seek(s, 0))
        row_count == IF "Date" \in Range(count.fields) THEN Len(count.rows)
                     ELSE Size(s.content) - count.s.pos
        d == DictReader(seek(s, 0))
        one(i) == LET row == d.rows[i]
                      date == parse_date(row.date)
                      amount == Decimal(row.amt)
                  IN  IF date.exc \/ amount.exc THEN Skip
                      ELSE Yield([Transaction("wsecu") EXCEPT
                                    !.desc = row.name,
                                    !.lineno = i, !.reversed_lineno = Some(0 - i),
                                    !.date = Some(date.value), !.post_date = Some(date.value),
                                    !.amount = amount.value, !.currency = Some("USD"),
                                    !.source_account = Some(row.acct)])
        rows == RunRows([i \in 1..Len(d.rows) |-> one(i)])
        m == WSECUExtractor_find_most_recent_transaction([d.s EXCEPT !.pos = Size(s.content)])
        bal == IF m.exc THEN Throw
               ELSE IF m.row = None THEN Skip
               ELSE WSECUExtractor_create_balance_transaction(m.row[1])
    IN  IF count.exc THEN [raised |-> TRUE, txns |-> <<>>, s |-> count.s]
        ELSE [raised |-> bal.exc, txns |-> rows.txns \o bal.out, s |-> m.s]

\* __call__: [raised, txns, s], txns the records yielded before it ended or raised.
WSECUExtractor_call(s) ==
    LET count == DictReader(seek(s, 0))
        row_count == IF "Date" \in Range(count.fields) THEN Len(count.rows)
                     ELSE Size(s.content) - count.s.pos
        d == DictReader(seek(s, 0))
        one(i) == LET row == d.rows[i]
                      date == parse_date(row.date)
                      amount == Decimal(row.amt)
                  IN  IF date.exc \/ amount.exc THEN Skip
                      ELSE Yield([Transaction("wsecu") EXCEPT
                                    !.desc = row.name,
                                    !.lineno = i, !.reversed_lineno = Some(i - 1 - row_count),
                                    !.date = Some(date.value), !.post_date = Some(date.value),
                                    !.amount = amount.value, !.currency = Some("USD"),
                                    !.source_account = Some(row.acct)])
        rows == RunRows([i \in 1..Len(d.rows) |-> one(i)])
        m == WSECUExtractor_find_most_recent_transaction([d.s EXCEPT !.pos = Size(s.content)])
        bal == IF m.exc THEN Throw
               ELSE IF m.row = None THEN Skip
               ELSE WSECUExtractor_create_balance_transaction(m.row[1])
    IN  IF count.exc THEN [raised |-> TRUE, txns |-> <<>>, s |-> count.s]
        ELSE [raised |-> bal.exc, txns |-> rows.txns \o bal.out, s |-> m.s]

(***************************************************************************)
(* Credit Human CSV.                                                       *)
(***************************************************************************)
\* parse_currency_amount: '"', "$" and "," are removed before Decimal().
CreditHuman_parse_currency_amount(t) ==
    [exc |-> t.k \notin {"plain", "dollar"}, value |-> t.v]

CreditHumanExtractor_find_most_recent_transaction(s) ==
    FirstDatedRow(DictReader(seek(s, 0)))

CreditHumanExtractor_fingerprint(s) ==
    LET m == CreditHumanExtractor_find_most_recent_transaction(s)
        h == ReadFieldnames(seek(m.s, 0))
        row == m.row[1]
    IN  IF m.exc THEN Return(None, m.s)
        ELSE IF m.row = None THEN Return(None, m.s)
        ELSE IF h.exc THEN Return(None, h.s)
        ELSE Return(Some(Fingerprint(parse_date(row.date).value,
                                     hexdigest(<<Chars(row.acct), Chars(row.id), Str(row.date),
                                                 AmountText(row.amt), AmountText(row.bal)>>, 64))),
                    h.s)

CreditHumanExtractor_create_balance_transaction(balance_row) ==
    LET d == parse_date(balance_row.date)
        a == CreditHuman_parse_currency_amount(balance_row.bal)
    IN  IF d.exc \/ a.exc THEN Throw
        ELSE Yield([Transaction("credit_human") EXCEPT
                      !.desc = Some("Balance as of"),
                      !.lineno = 0,
                      !.transaction_id = Some(TxnId("BALANCE", d.value, balance_row.acct, "", 0)),
                      !.date = Some(d.value + 1), !.post_date = Some(d.value + 1),
                      !.amount = a.value, !.currency = Some("USD"),
                      !.type = Some("BALANCE"), !.source_account = Some(balance_row.acct)])

CreditHumanExtractor_call(s) ==
    LET d == DictReader(seek(s, 0))
        one(i) == LET row == d.rows[i]
                      date == parse_date(row.date)
                      amount == CreditHuman_parse_currency_amount(row.amt)
                  IN  IF date.exc \/ amount.exc THEN Skip
                      ELSE Yield([Transaction("credit_human") EXCEPT
                                    !.desc = row.name,
                                    !.lineno = i,
                                    !.transaction_id = Some(TxnId("id", 0, row.id, "", 0)),
                                    !.date = Some(date.value), !.post_date = Some(date.value),
                                    !.amount = amount.value, !.currency = Some("USD"),
                                    !.source_account = Some(row.acct)])
        rows == RunRows([i \in 1..Len(d.rows) |-> one(i)])
        m == CreditHumanExtractor_find_most_recent_transaction([d.s EXCEPT !.pos = Size(s.content)])
        bal == IF m.exc THEN Throw
               ELSE IF m.row = None THEN Skip
               ELSE CreditHumanExtractor_create_balance_transaction(m.row[1])
    IN  IF d.exc THEN [raised |-> TRUE, txns |-> <<>>, s |-> d.s]
        ELSE [raised |-> bal.exc, txns |-> rows.txns \o bal.out, s |-> m.s]

(***************************************************************************)
(* DOCFCU CSV.                                                             *)
(***************************************************************************)
\* parse_currency_amount: "" is 0.00; '"' and "," are removed before Decimal(),
\* so that a "$" stays and raises.
Docfcu_parse_currency_amount(t) ==
    [exc |-> t.k \notin {"plain", "empty"}, value |-> IF t.k = "plain" THEN t.v ELSE 0]

\* seek(0); lines = readlines(); lines[4:] read with the expected field names:
\* [exc, short, columns, rows, s].  columns tells whether the lines carry the
\* eleven columns; short whether there are fewer than five lines.
DocfcuExtractor_readlines(s) ==
    LET r == read(seek(s, 0))
        c == s.content
    IN  [exc |-> r.exc, short |-> Size(c) < 5, columns |-> c.pre = 4 /\ c.mode # "binary",
         rows |-> IF c.pre = 4 /\ c.stmts # <<>> THEN c.stmts[1].txns ELSE <<>>,
         s |-> r.s]

\* _extract_account_info: [exc, source_account, s]; text methods on the lines of
\* a binary stream raise TypeError.
DocfcuExtractor_extract_account_info(s) ==
    LET r == read(seek(s, 0))
        c == s.content
    IN  [exc |-> r.exc \/ (c.mode = "binary" /\ Size(c) >= 2),
         source_account |-> IF Size(c) >= 2 /\ c.pre = 4 /\ c.stmts # <<>>
                            THEN c.stmts[1].acct ELSE "",
         s |-> r.s]

DocfcuExtractor_fingerprint(s) ==
    LET l == DocfcuExtractor_readlines(s)
        row == l.rows[1]
        d == parse_date(row.date)
    IN  IF l.exc \/ l.short THEN Return(None, l.s)
        ELSE IF ~l.columns \/ d.exc THEN Return(None, l.s)
        ELSE Return(Some(Fingerprint(d.value,
                                     hexdigest(<<Chars(row.id), Str(row.date), AmountText(row.amt),
                                                 AmountText(row.amt2), AmountText(row.bal)>>, 64))),
                    l.s)

\* [exc, row, s]: the first row that is not empty, not a COMMENT, has a date
\* that parses and a balance that is not empty.
DocfcuExtractor_find_most_recent_transaction(s) ==
    LET l == DocfcuExtractor_readlines(s)
        valid == {i \in 1..Len(l.rows) :
                    /\ l.rows[i].kind = "txn"
                    /\ ~parse_date(l.rows[i].date).exc
                    /\ l.rows[i].bal.k # "empty"}
        i == CHOOSE x \in valid : \A y \in valid : x <= y
    IN  IF l.exc THEN [exc |-> TRUE, row |-> None, s |-> l.s]
        ELSE IF l.short THEN [exc |-> FALSE, row |-> None, s |-> l.s]
        ELSE IF ~l.columns THEN [exc |-> TRUE, row |-> None, s |-> l.s]
        ELSE IF valid = {} THEN [exc |-> FALSE, row |-> None, s |-> l.s]
        ELSE [exc |-> FALSE, row |-> Some(l.rows[i]), s |-> l.s]

\* [exc, out, s].
DocfcuExtractor_create_balance_transaction(balance_row, s) ==
    LET d == parse_date(balance_row.date)
        a == Docfcu_parse_currency_amount(balance_row.bal)
        info == DocfcuExtractor_extract_account_info(s)
    IN  IF d.exc \/ a.exc THEN [exc |-> TRUE, out |-> <<>>, s |-> s]
        ELSE IF info.exc THEN [exc |-> TRUE, out |-> <<>>, s |-> info.s]
        ELSE [exc |-> FALSE, s |-> info.s,
              out |-> <<[Transaction("docfcu") EXCEPT
                           !.desc = Some("Balance as of"),
                           !.lineno = 0,
                           !.transaction_id = Some(TxnId("BALANCE", d.value, info.source_account, "", 0)),
                           !.date = Some(d.value + 1), !.post_date = Some(d.value + 1),
                           !.amount = a.value, !.currency = Some("USD"),
                           !.type = Some("BALANCE"),
                           !.source_account = Some(info.source_account)]>>]

DocfcuExtractor_call(s) ==
    LET info == DocfcuExtractor_extract_account_info(s)
        l == DocfcuExtractor_readlines(info.s)
        one(i) == LET row == l.rows[i]
                      date == parse_date(row.date)
                      debit_amount == Docfcu_parse_currency_amount(row.amt)
                      credit_amount == Docfcu_parse_currency_amount(row.amt2)
                  IN  IF row.kind = "blank" \/ date.exc \/ row.kind = "comment" THEN Skip
                      ELSE IF debit_amount.exc \/ credit_amount.exc THEN Skip
                      ELSE IF credit_amount.value = 0 /\ debit_amount.value = 0 THEN Skip
                      ELSE Yield([Transaction("docfcu") EXCEPT
                                    !.desc = row.name,
                                    !.lineno = i + 4,
                                    !.transaction_id = Some(TxnId("id", 0, row.id, "", 0)),
                                    !.date = Some(date.value), !.post_date = Some(date.value),
                                    !.amount = IF credit_amount.value # 0 THEN credit_amount.value
                                               ELSE 0 - debit_amount.value,
                                    !.currency = Some("USD"),
                                    !.source_account = Some(info.source_account)])
        rows == RunRows([i \in 1..Len(l.rows) |-> one(i)])
        m == DocfcuExtractor_find_most_recent_transaction(l.s)
        bal == IF m.exc THEN [exc |-> TRUE, out |-> <<>>, s |-> m.s]
               ELSE IF m.row = None THEN [exc |-> FALSE, out |-> <<>>, s |-> m.s]
               ELSE DocfcuExtractor_create_balance_transaction(m.row[1], m.s)
    IN  IF info.exc THEN [raised |-> TRUE, txns |-> <<>>, s |-> info.s]
        ELSE IF l.exc THEN [raised |-> TRUE, txns |-> <<>>, s |-> l.s]
        ELSE IF l.short THEN [raised |-> FALSE, txns |-> <<>>, s |-> l.s]
        ELSE [raised |-> bal.exc, txns |-> rows.txns \o bal.out, s |-> bal.s]

(***************************************************************************)
(* BAC San Jose bank CSV (bac_san_jose.py).                                *)
(***************************************************************************)
\* _parse_file_sections: [exc, account_info, transactions, s].  The "in" tests
\* on the lines of a binary stream raise TypeError.
BacSanJoseExtractor_parse_file_sections(s) ==
    LET r == read(seek(s, 0))
        c == s.content
        st == c.stmts[1]
    IN  IF r.exc \/ (c.mode = "binary" /\ Size(c) >= 1)
        THEN [exc |-> TRUE, account_info |-> None, transactions |-> <<>>, s |-> r.s]
        ELSE [exc |-> FALSE,
              account_info |-> IF Size(c) >= 2 /\ c.stmts # <<>>
                               THEN Some([account_number |-> st.acct, currency |-> st.cur])
                               ELSE None,
              transactions |-> IF "Fecha de Transaccion" \in c.marks /\ c.stmts # <<>>
                               THEN st.txns ELSE <<>>,
              s |-> r.s]

\* _find_last_transaction returning the first row of the file.
BacSanJoseExtractor_find_first_transaction(transactions) ==
    IF transactions = <<>> THEN None ELSE Some(transactions[1])

\* _find_last_transaction: the last row of the file.
BacSanJoseExtractor_find_last_transaction(transactions) ==
    IF transactions = <<>> THEN None ELSE Some(transactions[Len(transactions)])

BacSanJoseExtractor_fingerprint(s) ==
    LET p == BacSanJoseExtractor_parse_file_sections(s)
        lt == BacSanJoseExtractor_find_last_transaction(p.transactions)
        d == parse_date(lt[1].date)
    IN  IF p.exc \/ p.account_info = None \/ lt = None THEN Return(None, p.s)
        ELSE IF d.exc THEN Return(None, p.s)
        ELSE Return(Some(Fingerprint(d.value,
                                     hexdigest(<<Chars(p.account_info[1].account_number),
                                                 AmountText(lt[1].bal), Str(lt[1].date),
                                                 Chars(lt[1].id)>>, 64))), p.s)

BacSanJoseExtractor_create_balance_transaction(last_transaction, account_info) ==
    LET a == Decimal(last_transaction.bal)
        d == parse_date(last_transaction.date)
    IN  IF a.exc \/ d.exc THEN Throw
        ELSE Yield([Transaction("bac_san_jose") EXCEPT
                      !.desc = Some("Balance as of"),
                      !.lineno = 0,
                      !.transaction_id =
                          Some(TxnId("BALANCE", d.value, account_info.account_number, "", 0)),
                      !.date = Some(d.value + 1), !.post_date = Some(d.value + 1),
                      !.amount = a.value, !.currency = Some(account_info.currency),
                      !.type = Some("BALANCE"),
                      !.source_account = Some(account_info.account_number)])

BacSanJoseExtractor_call(s) ==
    LET p == BacSanJoseExtractor_parse_file_sections(s)
        info == p.account_info[1]
        n == Len(p.transactions)
        one(i) == LET row == p.transactions[i]
                      date == parse_date(row.date)
                      debit == Decimal(row.amt)
                      credit == Decimal(row.amt2)
                      useDebit == row.amt.k # "empty" /\ ~IsZeroText(row.amt)
                      useCredit == row.amt2.k # "empty" /\ ~IsZeroText(row.amt2)
                      txn(amount) == [Transaction("bac_san_jose") EXCEPT
                                        !.desc = row.name,
                                        !.lineno = i, !.reversed_lineno = Some(i - 1 - n),
                                        !.date = Some(date.value), !.post_date = Some(date.value),
                                        !.amount = amount, !.currency = Some(info.currency),
                                        !.source_account = Some(info.account_number),
                                        !.reference = Some(row.id)]
                  IN  IF date.exc THEN Skip
                      ELSE IF useDebit THEN (IF debit.exc THEN Skip ELSE Yield(txn(0 - debit.value)))
                      ELSE IF useCredit THEN (IF credit.exc THEN Skip ELSE Yield(txn(credit.value)))
                      ELSE Skip
        rows == RunRows([i \in 1..n |-> one(i)])
        lt == BacSanJoseExtractor_find_last_transaction(p.transactions)
        bal == IF lt = None THEN Skip
               ELSE BacSanJoseExtractor_create_balance_transaction(lt[1], info)
    IN  IF p.exc THEN [raised |-> TRUE, txns |-> <<>>, s |-> p.s]
        ELSE IF p.account_info = None THEN [raised |-> FALSE, txns |-> <<>>, s |-> p.s]
        ELSE [raised |-> bal.exc, txns |-> rows.txns \o bal.out, s |-> p.s]

(***************************************************************************)
(* BAC San Jose credit card CSV.                                           *)
(***************************************************************************)
\* _parse_file_sections: [exc, account_info, s].  Line 2 has the nine fields of
\* the account line in a file of this layout alone; the card number and the
\* statement date must not be empty.
BacSanJoseCreditExtractor_parse_file_sections(s) ==
    LET r == read(seek(s, 0))
        c == s.content
        st == c.stmts[1]
        bad == \/ r.exc \/ c.mode = "binary" \/ Size(c) < 2
               \/ c.layout # "bac_san_jose_credit" \/ c.stmts = <<>>
    IN  IF bad THEN [exc |-> TRUE, account_info |-> None, s |-> r.s]
        ELSE IF st.acct = "" \/ st.asof = -1 THEN [exc |-> TRUE, account_info |-> None, s |-> r.s]
        ELSE [exc |-> FALSE, s |-> r.s,
              account_info |-> Some([source_account |-> st.acct, statement_date |-> st.asof,
                                     cash_payment_local |-> st.bal,
                                     cash_payment_dollars |-> st.bal2])]

\* The loop of _parse_transactions over the lines after the section header:
\* [exc, transactions].
RECURSIVE BacSanJoseCreditExtractor_parse_lines(_, _, _, _, _)
BacSanJoseCreditExtractor_parse_lines(rows, i, pre, current_last_four, acc) ==
    IF i > Len(rows) THEN [exc |-> FALSE, transactions |-> acc]
    ELSE LET row == rows[i]
             none(t) == IsZeroText(t) \/ t.k = "empty"
             used == IF ~none(row.amt) THEN row.amt ELSE row.amt2
             currency == IF ~none(row.amt) THEN "CRC" ELSE "USD"
             next(cur, a) == BacSanJoseCreditExtractor_parse_lines(rows, i + 1, pre, cur, a)
         IN  IF row.kind = "card" THEN next(Some(row.acct), acc)
             ELSE IF row.date = -1 THEN next(current_last_four, acc)
             ELSE IF none(row.amt) /\ none(row.amt2) THEN next(current_last_four, acc)
             ELSE IF current_last_four = None \/ Decimal(used).exc \/ parse_date(row.date).exc
             THEN [exc |-> TRUE, transactions |-> acc]
             ELSE next(current_last_four,
                       Append(acc, [date |-> row.date, amount |-> 0 - Decimal(used).value,
                                    currency |-> currency,
                                    last_four_digits |-> current_last_four[1],
                                    description |-> row.name,
                                    line_number |-> pre + i]))

\* _parse_transactions: [exc, transactions, s].
BacSanJoseCreditExtractor_parse_transactions(s) ==
    LET r == read(seek(s, 0))
        c == s.content
        p == BacSanJoseCreditExtractor_parse_lines(c.stmts[1].txns, 1, c.pre, None, <<>>)
    IN  IF r.exc \/ c.mode = "binary" \/ "Date, , Local, Dollars" \notin c.marks
        THEN [exc |-> TRUE, transactions |-> <<>>, s |-> r.s]
        ELSE IF c.layout # "bac_san_jose_credit" \/ c.stmts = <<>>
        THEN [exc |-> FALSE, transactions |-> <<>>, s |-> r.s]
        ELSE [exc |-> p.exc, transactions |-> p.transactions, s |-> r.s]

BacSanJoseCreditExtractor_fingerprint(s) ==
    LET p == BacSanJoseCreditExtractor_parse_file_sections(s)
        info == p.account_info[1]
        d == parse_date(info.statement_date)
    IN  IF p.exc THEN Return(None, p.s)
        ELSE IF d.exc THEN Return(None, p.s)
        ELSE Return(Some(Fingerprint(d.value,
                                     hexdigest(<<Chars(info.source_account),
                                                 Str(info.statement_date),
                                                 AmountText(info.cash_payment_local),
                                                 AmountText(info.cash_payment_dollars)>>, 64))), p.s)

\* One balance record of _create_balance_transactions.
BacSanJoseCredit_balance(account_info, statement_date, amount, currency) ==
    [Transaction("bac_san_jose_credit") EXCEPT
       !.desc = Some("Balance as of"),
       !.lineno = 0,
       !.transaction_id = Some(TxnId("BALANCE", statement_date, account_info.source_account,
                                     currency, 0)),
       !.date = Some(statement_date), !.post_date = Some(statement_date),
       !.amount = amount, !.currency = Some(currency), !.type = Some("BALANCE"),
       !.source_account = Some(account_info.source_account),
       !.last_four_digits = Some(account_info.source_account)]

\* _create_balance_transactions appending the local-currency record twice.
BacSanJoseCreditExtractor_create_balance_transactions_twice(account_info) ==
    LET d == parse_date(account_info.statement_date)
        local == account_info.cash_payment_local
        dollars == account_info.cash_payment_dollars
        useLocal == local.k # "empty" /\ ~IsZeroText(local)
        useDollars == dollars.k # "empty" /\ ~IsZeroText(dollars)
        crc == IF useLocal
               THEN <<BacSanJoseCredit_balance(account_info, d.value, 0 - Decimal(local).value, "CRC")>>
               ELSE <<>>
        usd == IF useDollars
               THEN <<BacSanJoseCredit_balance(account_info, d.value, 0 - Decimal(dollars).value, "USD")>>
               ELSE <<>>
    IN  IF account_info.source_account = "" \/ d.exc THEN [exc |-> TRUE, out |-> <<>>]
        ELSE IF (useLocal /\ Decimal(local).exc) \/ (useDollars /\ Decimal(dollars).exc)
        THEN [exc |-> TRUE, out |-> <<>>]
        ELSE [exc |-> FALSE, out |-> crc \o crc \o usd]

\* _create_balance_transactions: [exc, out], out the list of balance records.
BacSanJoseCreditExtractor_create_balance_transactions(account_info) ==
    LET d == parse_date(account_info.statement_date)
        local == account_info.cash_payment_local
        dollars == account_info.cash_payment_dollars
        useLocal == local.k # "empty" /\ ~IsZeroText(local)
        useDollars == dollars.k # "empty" /\ ~IsZeroText(dollars)
        crc == IF useLocal
               THEN <<BacSanJoseCredit_balance(account_info, d.value, 0 - Decimal(local).value, "CRC")>>
               ELSE <<>>
        usd == IF useDollars
               THEN <<BacSanJoseCredit_balance(account_info, d.value, 0 - Decimal(dollars).value, "USD")>>
               ELSE <<>>
    IN  IF account_info.source_account = "" \/ d.exc THEN [exc |-> TRUE, out |-> <<>>]
        ELSE IF (useLocal /\ Decimal(local).exc) \/ (useDollars /\ Decimal(dollars).exc)
        THEN [exc |-> TRUE, out |-> <<>>]
        ELSE [exc |-> FALSE, out |-> crc \o usd]

BacSanJoseCreditExtractor_call(s) ==
    LET p == BacSanJoseCreditExtractor_parse_file_sections(s)
        info == p.account_info[1]
        t == BacSanJoseCreditExtractor_parse_transactions(p.s)
        n == Len(t.transactions)
        one(i) == LET row == t.transactions[i]
                  IN  [Transaction("bac_san_jose_credit") EXCEPT
                         !.desc = row.description,
                         !.lineno = row.line_number, !.reversed_lineno = Some(i - 1 - n),
                         !.transaction_id = Some(TxnId("", row.date, "", "", i - 1)),
                         !.date = Some(row.date), !.post_date = Some(row.date),
                         !.amount = row.amount, !.currency = Some(row.currency),
                         !.source_account = Some(info.source_account),
                         !.last_four_digits = Some(row.last_four_digits)]
        bal == BacSanJoseCreditExtractor_create_balance_transactions(info)
    IN  IF p.exc THEN [raised |-> TRUE, txns |-> <<>>, s |-> p.s]
        ELSE IF t.exc THEN [raised |-> TRUE, txns |-> <<>>, s |-> t.s]
        ELSE [raised |-> bal.exc, txns |-> [i \in 1..n |-> one(i)] \o bal.out, s |-> t.s]

(***************************************************************************)
(* OFX documents read through ofxtools: WSECU, LFCU, E*TRADE.              *)
(***************************************************************************)
\* The message set of the statements of an OFX file.
StatementKind(c) ==
    CASE c.layout = "capital_one_ofx" -> "cc"
      [] c.layout = "etrade_ofx" -> "inv"
      [] OTHER -> "bank"

\* Whether OFXTree.parse() and convert() accept the text: an OFX document whose
\* dates and amounts all have their types.
OfxConverts(c) ==
    /\ "<OFX>" \in c.marks
    /\ \A j \in 1..Len(c.stmts) :
         LET st == c.stmts[j]
         IN  /\ \A i \in 1..Len(st.txns) :
                  ~parse_date(st.txns[i].date).exc /\ st.txns[i].amt.k \in {"plain", "empty"}
             /\ st.bal.k = "empty" \/ (st.bal.k = "plain" /\ ~parse_date(st.asof).exc)

\* The text of an optional element as Python has it: None where the element
\* is absent or has no text.
OfxString(name) == IF name = Some("") THEN None ELSE name

\* str() of a FITID: the identifier of the row, or BALANCE_<date>.
IdText(id) == IF id.tag = "id" THEN Chars(id.acct) ELSE <<"BALANCE_", ToString(id.date)>>

\* str(d.get('NAME', '')): '' without the key, 'None' for None.
NameText(d) ==
    IF ~d.hasName THEN <<>> ELSE IF d.name = None THEN <<"None">> ELSE Chars(d.name[1])

\* The dictionary a parser yields for a STMTTRN element or a balance: type is
\* TRNTYPE, date DTPOSTED, amt TRNAMT, id FITID, name NAME (hasName tells
\* whether the key is there); user tells whether DTUSER is there.
TxnData(row, currency, account) ==
    [type |-> "DEBIT", date |-> row.date, amt |-> row.amt,
     id |-> TxnId("id", 0, row.id, "", 0), currency |-> currency, acct |-> account,
     user |-> row.kind # "nouser", name |-> OfxString(row.name), hasName |-> TRUE]

BalanceData(st, currency, account) ==
    [type |-> "BALANCE", date |-> st.asof, amt |-> st.bal,
     id |-> TxnId("BALANCE", st.asof, "", "", 0), currency |-> currency, acct |-> account,
     user |-> TRUE, name |-> Some("Balance as of"), hasName |-> TRUE]

\* seek(0); content = read(); seek(0); OFXTree().parse(); convert(): [exc, s].
OfxRead(s, bytesOk) ==
    LET s0 == seek(s, 0)
        c == s.content
    IN  [exc |-> c.fails \/ (c.mode = "binary" /\ ~bytesOk) \/ ~OfxConverts(c), s |-> s0]

\* The loop over ofx.statements of the two bank parsers: [raised, txns].  A
\* statement that is no bank statement, or has no account id, raises ValueError.
\* listOnly tells whether the balance is yielded inside the transaction-list test.
BankStatements(c, listOnly) ==
    LET one(j) ==
            LET st == c.stmts[j]
                listed == st.hasList /\ st.txns # <<>>
                rows == IF listed
                        THEN [i \in 1..Len(st.txns) |->
                                TxnData(st.txns[i], Some(st.cur), Some(st.acct))]
                        ELSE <<>>
                bal == IF st.bal.k # "empty" /\ (listed \/ ~listOnly)
                       THEN <<BalanceData(st, Some(st.cur), Some(st.acct))>> ELSE <<>>
            IN  IF StatementKind(c) # "bank" \/ st.acct = "" THEN Throw
                ELSE [exc |-> FALSE, out |-> rows \o bal]
    IN  RunRows([j \in 1..Len(c.stmts) |-> one(j)])

\* The record __call__ builds from a dictionary whose date and amount parse.
OfxTransaction(extractor, lineno, d) ==
    [Transaction(extractor) EXCEPT
       !.lineno = lineno, !.transaction_id = Some(d.id),
       !.date = Some(d.date), !.post_date = Some(d.date),
       !.amount = IF d.amt.k = "plain" THEN d.amt.v ELSE 0,
       !.type = Some(d.type), !.currency = d.currency, !.source_account = d.acct,
       !.desc = d.name]

\* fingerprint() of the OFX plugins from the list of dictionaries: the first
\* one, FITID, TRNAMT and NAME (MEMO in etrade_ofx.py) hashed as str() gives them.
OfxFingerprint(dicts) ==
    IF dicts = <<>> \/ parse_date(dicts[1].date).exc THEN None
    ELSE Some(Fingerprint(dicts[1].date,
                          hexdigest(<<IdText(dicts[1].id), AmountText(dicts[1].amt),
                                      NameText(dicts[1])>>, 64)))

\* _parse_transactions of wsecu_ofx.py: [raised, txns, s].  Every exception is
\* printed and ends the generator.
WsecuOFXExtractor_parse_transactions(s) ==
    LET r == OfxRead(s, TRUE)
    IN  [raised |-> FALSE, s |-> r.s,
         txns |-> IF r.exc THEN <<>> ELSE BankStatements(s.content, TRUE).txns]

WsecuOFXExtractor_fingerprint(s) ==
    LET p == WsecuOFXExtractor_parse_transactions(s)
    IN  Return(OfxFingerprint(p.txns), p.s)

WsecuOFXExtractor_call(s) ==
    LET p == WsecuOFXExtractor_parse_transactions(s)
    IN  [raised |-> FALSE, s |-> p.s,
         txns |-> [i \in 1..Len(p.txns) |->
                     OfxTransaction("wsecu_ofx", i, p.txns[i])]]

\* _parse_transactions of lfcu_ofx.py: [raised, txns, s].
LfcuOFXExtractor_parse_transactions(s) ==
    LET r == OfxRead(s, FALSE)
        b == BankStatements(s.content, FALSE)
    IN  IF r.exc THEN [raised |-> TRUE, txns |-> <<>>, s |-> r.s]
        ELSE [raised |-> b.raised, txns |-> b.txns, s |-> r.s]

\* fingerprint() without its try/except.
LfcuOFXExtractor_fingerprint_unguarded(s) ==
    LET p == LfcuOFXExtractor_parse_transactions(s)
    IN  IF p.raised THEN Raise(None, p.s) ELSE Return(OfxFingerprint(p.txns), p.s)

LfcuOFXExtractor_fingerprint(s) ==
    LET p == LfcuOFXExtractor_parse_transactions(s)
    IN  IF p.raised THEN Return(None, p.s) ELSE Return(OfxFingerprint(p.txns), p.s)

\* __call__ of lfcu_ofx.py takes the whole list before it yields.  NAME is
\* txn.name, and strip() of None raises AttributeError, which the loop does
\* not catch.
LfcuOFXExtractor_call(s) ==
    LET p == LfcuOFXExtractor_parse_transactions(s)
        one(i) == IF p.txns[i].name = None THEN Throw
                  ELSE Yield(OfxTransaction("lfcu_ofx", i, p.txns[i]))
        r == RunRows([i \in 1..Len(p.txns) |-> one(i)])
    IN  IF p.raised THEN [raised |-> TRUE, txns |-> <<>>, s |-> p.s]
        ELSE [raised |-> r.raised, txns |-> r.txns, s |-> p.s]

\* _parse_transactions of etrade_ofx.py: [raised, txns, s]; the balance is the
\* available cash of INVBAL as of the statement's DTASOF.
EtradeOFXExtractor_parse_transactions(s) ==
    LET r == OfxRead(s, FALSE)
        c == s.content
        one(j) ==
            LET st == c.stmts[j]
                rows == IF st.hasList
                        THEN [i \in 1..Len(st.txns) |->
                                TxnData(st.txns[i], Some(st.cur), Some(st.acct))]
                        ELSE <<>>
                bal == IF st.bal.k # "empty"
                       THEN <<BalanceData(st, Some(st.cur), Some(st.acct))>> ELSE <<>>
            IN  IF st.acct = "" THEN Throw ELSE [exc |-> FALSE, out |-> rows \o bal]
        b == RunRows([j \in 1..Len(c.stmts) |-> one(j)])
    IN  IF r.exc THEN [raised |-> TRUE, txns |-> <<>>, s |-> r.s]
        ELSE IF StatementKind(c) # "inv" THEN [raised |-> FALSE, txns |-> <<>>, s |-> r.s]
        ELSE [raised |-> b.raised, txns |-> b.txns, s |-> r.s]

EtradeOFXExtractor_fingerprint(s) ==
    LET p == EtradeOFXExtractor_parse_transactions(s)
    IN  IF p.raised THEN Return(None, p.s) ELSE Return(OfxFingerprint(p.txns), p.s)

\* __call__ of etrade_ofx.py yields as the parser does, so that the records of
\* the statements before a failing one are out when it raises.  desc is the
\* MEMO of the dictionary; strip() of a MEMO that is None raises AttributeError.
EtradeOFXExtractor_call(s) ==
    LET p == EtradeOFXExtractor_parse_transactions(s)
        one(i) == IF p.txns[i].name = None THEN Throw
                  ELSE Yield(OfxTransaction("etrade_ofx", i, p.txns[i]))
        r == RunRows([i \in 1..Len(p.txns) |-> one(i)])
    IN  [raised |-> p.raised \/ r.raised, s |-> p.s, txns |-> r.txns]

(***************************************************************************)
(* OFX documents read as element trees: Ally Bank, Capital One.            *)
(***************************************************************************)
\* _extract_statement_metadata on the statement st of c: the first CURDEF, the
\* first ACCTID under the account element of the plugin's message set (kind),
\* BALAMT and DTASOF of the first LEDGERBAL.
ExtractStatementMetadata(c, st, kind) ==
    [currency |-> IF st.cur = "" THEN None ELSE Some(st.cur),
     main_account |-> IF StatementKind(c) = kind /\ st.acct # "" THEN Some(st.acct) ELSE None,
     ledger_balance |-> st.bal, ledger_date |-> st.asof]

\* _parse_transaction_from_element with _add_metadata_to_transaction: a key
\* _CURRENCY that is not set reads as 'USD' in __call__.
ElementTxnData(row, meta) ==
    [TxnData(row, IF meta.currency = None THEN Some("USD") ELSE meta.currency, meta.main_account)
       EXCEPT !.hasName = row.name # None]

\* All STMTTRN elements below the statements from the j-th on.
RECURSIVE AllRows(_, _)
AllRows(stmts, j) ==
    IF j > Len(stmts) THEN <<>> ELSE stmts[j].txns \o AllRows(stmts, j + 1)

\* The yield of the balance dictionary: [exc, out]; _create_balance_transaction
\* parses the ledger date for the NAME and raises ValueError on text that is no date.
ElementBalance(st, meta) ==
    IF meta.ledger_balance.k = "empty" \/ meta.ledger_date = -1 THEN Skip
    ELSE IF parse_date(meta.ledger_date).exc THEN Throw
    ELSE Yield(BalanceData(st, meta.currency, meta.main_account))

\* The except branch of _parse_transactions: the text from "<OFX>" on parsed by
\* ElementTree; every exception ends the generator.  [txns, s].
ElementFallback(s, kind) ==
    LET s0 == seek(s, 0)
        r == read(s0)
        c == s.content
        meta == ExtractStatementMetadata(c, c.stmts[1], kind)
        all == AllRows(c.stmts, 1)
        rows == [i \in 1..Len(all) |-> ElementTxnData(all[i], meta)]
    IN  IF r.exc \/ c.mode = "binary" \/ "<OFX>" \notin c.marks \/ c.stmts = <<>>
        THEN [txns |-> <<>>, s |-> r.s]
        ELSE [txns |-> rows \o ElementBalance(c.stmts[1], meta).out, s |-> r.s]

\* _parse_transactions of ally_bank_ofx.py and capital_one_ofx.py: [txns, s].
\* The try branch walks the tree ofxtools gives, first statement only, and
\* ends without a balance when there is no BANKTRANLIST; an exception in it
\* hands over to the except branch, which starts again from the top.
ElementParseTransactions(s, kind) ==
    LET s0 == seek(s, 0)
        c == s.content
        st == c.stmts[1]
        meta == ExtractStatementMetadata(c, st, kind)
        rows == [i \in 1..Len(st.txns) |-> ElementTxnData(st.txns[i], meta)]
        bal == ElementBalance(st, meta)
        fb == ElementFallback(s0, kind)
        end == [s0 EXCEPT !.pos = Size(c)]
    IN  IF c.fails \/ c.ofxtools # "elements" THEN fb
        ELSE IF StatementKind(c) # kind \/ c.stmts = <<>> THEN [txns |-> <<>>, s |-> end]
        ELSE IF ~st.hasList THEN [txns |-> <<>>, s |-> end]
        ELSE IF bal.exc THEN [txns |-> rows \o fb.txns, s |-> fb.s]
        ELSE [txns |-> rows \o bal.out, s |-> end]

\* The loop of __call__ over the dictionaries: a date that does not parse is
\* skipped (ValueError), an amount that does not parse raises InvalidOperation,
\* which the loop does not catch, and so does strip() of the text of a NAME
\* element without text (AttributeError); a dictionary without NAME has desc ''.  userDate is the Capital One variant: date is
\* DTUSER where there is one, last_four_digits is CCACCTTO_ACCTID, which only the
\* balance dictionary carries; Ally takes last_four_digits from _ACCOUNT_ID.
ElementCall(extractor, dicts, userDate) ==
    LET one(i) == LET d == dicts[i]
                  IN  IF parse_date(d.date).exc THEN Skip
                      ELSE IF Decimal(d.amt).exc THEN Throw
                      ELSE IF d.hasName /\ d.name = None THEN Throw
                      ELSE Yield([OfxTransaction(extractor, i, d) EXCEPT
                                    !.desc = IF ~d.hasName THEN Some("") ELSE d.name,
                                    !.date = IF userDate /\ ~d.user THEN None ELSE Some(d.date),
                                    !.last_four_digits = IF ~userDate THEN d.acct
                                                         ELSE IF d.type = "BALANCE" THEN d.acct
                                                         ELSE None])
    IN  RunRows([i \in 1..Len(dicts) |-> one(i)])

AllyBankOFXExtractor_parse_transactions(s) == ElementParseTransactions(s, "bank")

AllyBankOFXExtractor_fingerprint(s) ==
    LET p == AllyBankOFXExtractor_parse_transactions(s)
    IN  Return(OfxFingerprint(p.txns), p.s)

AllyBankOFXExtractor_call(s) ==
    LET p == AllyBankOFXExtractor_parse_transactions(s)
        r == ElementCall("ally_bank_ofx", p.txns, FALSE)
    IN  [raised |-> r.raised, txns |-> r.txns, s |-> p.s]

CapitalOneOFXExtractor_parse_transactions(s) == ElementParseTransactions(s, "cc")

CapitalOneOFXExtractor_fingerprint(s) ==
    LET p == CapitalOneOFXExtractor_parse_transactions(s)
    IN  Return(OfxFingerprint(p.txns), p.s)

CapitalOneOFXExtractor_call(s) ==
    LET p == CapitalOneOFXExtractor_parse_transactions(s)
        r == ElementCall("capital_one_ofx", p.txns, TRUE)
    IN  [raised |-> r.raised, txns |-> r.txns, s |-> p.s]

(***************************************************************************)
(* Synchrony PDF statements.                                               *)
(***************************************************************************)
\* datetime.date(1970, 1, 1), the starting date of a statement without dates,
\* as a day number below every date of the model.
EPOCH == 0

\* Number of rows among the first i whose date parses.
RECURSIVE Parsed(_, _)
Parsed(rows, i) ==
    IF i = 0 THEN 0
    ELSE Parsed(rows, i - 1) + (IF parse_date(rows[i].date).exc THEN 0 ELSE 1)

\* _extract_transactions: [raised, txns, s].
SynchronyPdfExtractor_extract_transactions(s) ==
    LET x == SynchronyPdfExtractor_extract_pdf_text(s)
        c == s.content
        st == c.stmts[1]
        account_number == IF st.acct = "" THEN None ELSE Some(st.acct)
        current_balance == st.bal.k # "empty"
        n == Len(st.txns)
        latest == parse_date(st.txns[1].date)
        balance_date == IF n > 0 /\ current_balance /\ ~latest.exc
                        THEN Some(latest.value + 1) ELSE None
        one(i) == LET lineno == Parsed(st.txns, i - 1) + 1
                  IN  IF parse_date(st.txns[i].date).exc \/ Decimal(st.txns[i].amt).exc THEN Skip
                      ELSE Yield([Transaction("synchrony_pdf") EXCEPT
                                    !.desc = st.txns[i].name,
                                    !.lineno = lineno,
                                    !.reversed_lineno =
                                        Some(lineno - n - (IF current_balance THEN 1 ELSE 0)),
                                    !.date = Some(st.txns[i].date),
                                    !.amount = Decimal(st.txns[i].amt).value,
                                    !.currency = Some("USD"),
                                    !.source_account = account_number])
        rows == RunRows([i \in 1..n |-> one(i)])
        bal == IF balance_date = None THEN <<>>
               ELSE <<[Transaction("synchrony_pdf") EXCEPT
                         !.desc = Some("Balance as of"),
                         !.lineno = Parsed(st.txns, n) + 1, !.reversed_lineno = Some(0),
                         !.transaction_id = Some(TxnId("BALANCE", balance_date[1], "", "", 0)),
                         !.date = balance_date, !.amount = Decimal(st.bal).value,
                         !.currency = Some("USD"), !.type = Some("BALANCE"),
                         !.source_account = account_number]>>
    IN  IF x.text = {} \/ c.stmts = <<>> THEN [raised |-> FALSE, txns |-> <<>>, s |-> x.s]
        ELSE [raised |-> FALSE, txns |-> rows.txns \o bal, s |-> x.s]

\* min() of the dates of the records, EPOCH when there is none.
RECURSIVE MinDate(_)
MinDate(txns) ==
    IF txns = <<>> THEN EPOCH
    ELSE LET rest == MinDate(Tail(txns))
             d == Head(txns).date[1]
         IN  IF rest = EPOCH THEN d ELSE Min(d, rest)

SynchronyPdfExtractor_fingerprint(s) ==
    LET x == SynchronyPdfExtractor_extract_pdf_text(s)
        t == SynchronyPdfExtractor_extract_transactions(x.s)
    IN  IF x.text = {} THEN Return(None, x.s)
        ELSE Return(Some(Fingerprint(MinDate(t.txns), hexdigest(<<Str(s.content.stmts)>>, 16))), t.s)

SynchronyPdfExtractor_call(s) == SynchronyPdfExtractor_extract_transactions(s)

(***************************************************************************)
(* Banco BCR HTML and Banco Nacional CSV: plugins without a balance record. *)
(***************************************************************************)
\* _parse_html: [exc, account_number, currency, transactions, s]; the table
\* rows are kept whose two dates hold "/".
BancoBcrExtractor_parse_html(s) ==
    LET r == read(seek(s, 0))
        c == s.content
        html == c.layout = "banco_bcr" /\ c.stmts # <<>>
        st == c.stmts[1]
    IN  [exc |-> r.exc \/ c.mode = "binary", s |-> r.s,
         account_number |-> IF html /\ st.acct # "" THEN Some(st.acct) ELSE None,
         currency |-> IF html /\ st.cur # "" THEN Some(st.cur) ELSE None,
         transactions |-> IF html THEN SelectSeq(st.txns, LAMBDA row : row.date # -1) ELSE <<>>]

BancoBcrExtractor_fingerprint(s) ==
    LET p == BancoBcrExtractor_parse_html(s)
        first == p.transactions[1]
    IN  IF p.exc \/ p.account_number = None \/ p.transactions = <<>> THEN Return(None, p.s)
        ELSE IF parse_date(first.date).exc THEN Return(None, p.s)
        ELSE Return(Some(Fingerprint(first.date,
                                     hexdigest(<<Chars(p.account_number[1]), Str(first.date),
                                                 Chars(first.id)>>, 64))),
                    p.s)

\* The debit column is looked at first: a debit of "0.00" leaves the row
\* without an amount whatever the credit column holds.
BancoBcrExtractor_call(s) ==
    LET p == BancoBcrExtractor_parse_html(s)
        n == Len(p.transactions)
        one(i) == LET row == p.transactions[i]
                      txn(amount) == [Transaction("banco_bcr") EXCEPT
                                        !.desc = row.name,
                                        !.lineno = i, !.reversed_lineno = Some(n - (i - 1)),
                                        !.transaction_id = Some(TxnId("id", row.date, row.id, "", 0)),
                                        !.reference = Some(row.id),
                                        !.date = Some(row.date), !.post_date = Some(row.date),
                                        !.amount = amount, !.currency = p.currency,
                                        !.source_account = p.account_number]
                      abs(v) == IF v < 0 THEN 0 - v ELSE v
                  IN  IF parse_date(row.date).exc THEN Skip
                      ELSE IF row.amt.k # "empty"
                      THEN (IF IsZeroText(row.amt) \/ Decimal(row.amt).exc THEN Skip
                            ELSE Yield(txn(0 - abs(row.amt.v))))
                      ELSE IF row.amt2.k # "empty"
                      THEN (IF IsZeroText(row.amt2) \/ Decimal(row.amt2).exc THEN Skip
                            ELSE Yield(txn(row.amt2.v)))
                      ELSE Skip
    IN  IF p.exc THEN [raised |-> TRUE, txns |-> <<>>, s |-> p.s]
        ELSE IF p.account_number = None \/ p.currency = None
        THEN [raised |-> FALSE, txns |-> <<>>, s |-> p.s]
        ELSE [raised |-> FALSE, txns |-> RunRows([i \in 1..n |-> one(i)]).txns, s |-> p.s]

\* _parse_transactions: [exc, transactions, s]; rows without a date and TOTAL
\* rows are left out.  Only an export that is split at ";" has the columns.
BancoNacionalExtractor_parse_transactions(s) ==
    LET s0 == seek(s, 0)
        h == ReadFieldnames(s0)
        c == s.content
        ours == c.delim = ";" /\ "fechaMovimiento" \in Range(h.fields) /\ c.stmts # <<>>
    IN  IF h.exc THEN [exc |-> TRUE, transactions |-> <<>>, s |-> h.s]
        ELSE [exc |-> FALSE, s |-> [h.s EXCEPT !.pos = Size(c)],
              transactions |-> IF ours
                               THEN SelectSeq(c.stmts[1].txns,
                                              LAMBDA row : row.date # -1 /\ row.kind # "total")
                               ELSE <<>>]

BancoNacionalExtractor_fingerprint(s) ==
    LET p == BancoNacionalExtractor_parse_transactions(s)
        first == p.transactions[1]
    IN  IF p.exc \/ p.transactions = <<>> THEN Return(None, p.s)
        ELSE IF parse_date(first.date).exc THEN Return(None, p.s)
        ELSE Return(Some(Fingerprint(first.date, hexdigest(<<Str(first.date), Chars(first.id)>>, 64))), p.s)

BancoNacionalExtractor_call(s) ==
    LET p == BancoNacionalExtractor_parse_transactions(s)
        n == Len(p.transactions)
        one(i) == LET row == p.transactions[i]
                      useDebit == row.amt.k # "empty" /\ ~IsZeroText(row.amt)
                      useCredit == row.amt2.k # "empty" /\ ~IsZeroText(row.amt2)
                      txn(amount) == [Transaction("banco_nacional") EXCEPT
                                        !.desc = row.name,
                                        !.lineno = i + 1, !.reversed_lineno = Some(n - (i - 1)),
                                        !.transaction_id = Some(TxnId("id", 0, row.id, "", 0)),
                                        !.reference = Some(row.id),
                                        !.date = Some(row.date), !.post_date = Some(row.date),
                                        !.amount = amount]
                  IN  IF parse_date(row.date).exc THEN Skip
                      ELSE IF useDebit
                      THEN (IF Decimal(row.amt).exc THEN Skip ELSE Yield(txn(0 - row.amt.v)))
                      ELSE IF useCredit
                      THEN (IF Decimal(row.amt2).exc THEN Skip ELSE Yield(txn(row.amt2.v)))
                      ELSE Skip
    IN  IF p.exc THEN [raised |-> TRUE, txns |-> <<>>, s |-> p.s]
        ELSE [raised |-> FALSE, txns |-> RunRows([i \in 1..n |-> one(i)]).txns, s |-> p.s]

(***************************************************************************)
(* The contract, by plugin name.                                           *)
(***************************************************************************)
fingerprint(p, s) ==
    CASE p = "ally_bank_ofx" -> AllyBankOFXExtractor_fingerprint(s)
      [] p = "bac_san_jose" -> BacSanJoseExtractor_fingerprint(s)
      [] p = "bac_san_jose_credit" -> BacSanJoseCreditExtractor_fingerprint(s)
      [] p = "banco_bcr" -> BancoBcrExtractor_fingerprint(s)
      [] p = "banco_nacional" -> BancoNacionalExtractor_fingerprint(s)
      [] p = "capital_one_ofx" -> CapitalOneOFXExtractor_fingerprint(s)
      [] p = "credit_human" -> CreditHumanExtractor_fingerprint(s)
      [] p = "docfcu" -> DocfcuExtractor_fingerprint(s)
      [] p = "etrade_ofx" -> EtradeOFXExtractor_fingerprint(s)
      [] p = "lfcu_ofx" -> LfcuOFXExtractor_fingerprint(s)
      [] p = "synchrony_pdf" -> SynchronyPdfExtractor_fingerprint(s)
      [] p = "wsecu" -> WSECUExtractor_fingerprint(s)
      [] p = "wsecu_ofx" -> WsecuOFXExtractor_fingerprint(s)

extract(p, s) ==
    CASE p = "ally_bank_ofx" -> AllyBankOFXExtractor_call(s)
      [] p = "bac_san_jose" -> BacSanJoseExtractor_call(s)
      [] p = "bac_san_jose_credit" -> BacSanJoseCreditExtractor_call(s)
      [] p = "banco_bcr" -> BancoBcrExtractor_call(s)
      [] p = "banco_nacional" -> BancoNacionalExtractor_call(s)
      [] p = "capital_one_ofx" -> CapitalOneOFXExtractor_call(s)
      [] p = "credit_human" -> CreditHumanExtractor_call(s)
      [] p = "docfcu" -> DocfcuExtractor_call(s)
      [] p = "etrade_ofx" -> EtradeOFXExtractor_call(s)
      [] p = "lfcu_ofx" -> LfcuOFXExtractor_call(s)
      [] p = "synchrony_pdf" -> SynchronyPdfExtractor_call(s)
      [] p = "wsecu" -> WSECUExtractor_call(s)
      [] p = "wsecu_ofx" -> WsecuOFXExtractor_call(s)

\* DEFAULT_IMPORT_ID of each plugin: the placeholders of the template.
DEFAULT_IMPORT_ID(p) ==
    CASE p = "ally_bank_ofx" -> {"account_id", "transaction_id"}
      [] p = "bac_san_jose" -> {"source_account", "reference"}
      [] p = "bac_san_jose_credit" -> {"last_four_digits", "transaction_id"}
      [] p = "banco_bcr" -> {"source_account", "transaction_id"}
      [] p = "banco_nacional" -> {"transaction_id"}
      [] p = "capital_one_ofx" -> {"last_four_digits", "transaction_id"}
      [] p = "credit_human" -> {"source_account", "transaction_id"}
      [] p = "docfcu" -> {"source_account", "transaction_id"}
      [] p = "etrade_ofx" -> {"source_account", "transaction_id"}
      [] p = "lfcu_ofx" -> {"source_account", "transaction_id"}
      [] p = "synchrony_pdf" -> {"extractor", "source_account", "reversed_lineno"}
      [] p = "wsecu" -> {"source_account", "reversed_lineno"}
      [] p = "wsecu_ofx" -> {"source_account", "transaction_id"}

(***************************************************************************)
(* The files the model runs on.                                            *)
(***************************************************************************)
\* All sequences over S of length at most n.
SeqsUpTo(S, n) == UNION {[1..k -> S] : k \in 0..n}

\* Date texts of data rows: two days, out of order in some files, and text
\* that spells no date.
DateTexts == {0, 1, 2}

WsecuRows ==
    {Row("txn", d, Plain(-500), EmptyAmount, b, "A1") :
        d \in DateTexts, b \in {Plain(0), Plain(-700)}}
    \cup {Row("txn", d, BadAmount, EmptyAmount, Plain(-700), "A1") : d \in {1, 2}}
    \cup {Row("txn", 1, Plain(-500), EmptyAmount, b, "A1") : b \in {EmptyAmount, BadAmount}}

CreditHumanRows ==
    {Row("txn", d, Dollar(-500), EmptyAmount, b, "A1") :
        d \in DateTexts, b \in {Dollar(0), Dollar(-700)}}

\* Rows with a debit column (amt) and a credit column (amt2): debits,
\* credits, and a row without an amount.
DebitCreditRows ==
    {Row("txn", d, x[1], x[2], x[3], "") :
        d \in DateTexts,
        x \in {<<Plain(500), EmptyAmount, Plain(-700)>>,
               <<EmptyAmount, Plain(300), Plain(0)>>}}
    \cup {Row("txn", 1, EmptyAmount, EmptyAmount, Plain(-700), "")}

\* Rows whose debit column holds "0.00" beside a credit, or a debit written
\* with a minus sign.
SignedRows ==
    {Row("txn", 1, Plain(0), Plain(300), Plain(0), ""),
     Row("txn", 1, Plain(-500), EmptyAmount, Plain(-700), "")}

OfxRows ==
    {Row("txn", 1, Plain(-500), EmptyAmount, EmptyAmount, ""),
     Row("txn", 2, Plain(-500), EmptyAmount, EmptyAmount, ""),
     Row("txn", 0, Plain(-500), EmptyAmount, EmptyAmount, ""),
     Row("txn", 1, BadAmount, EmptyAmount, EmptyAmount, "")}

PdfRows == {Row("txn", d, Plain(500), EmptyAmount, EmptyAmount, "") : d \in DateTexts}

\* A card grouping line, purchases in either currency, a line whose date has
\* digits but is no date, a line whose date field holds no digits.
BacCreditRows ==
    {Row("card", -1, Plain(0), Plain(0), EmptyAmount, "1234"),
     Row("txn", 1, Plain(500), Plain(0), EmptyAmount, ""),
     Row("txn", 1, Plain(0), Plain(90), EmptyAmount, ""),
     Row("txn", 0, Plain(500), Plain(0), EmptyAmount, ""),
     Row("txn", -1, Plain(500), Plain(0), EmptyAmount, "")}

AllyMarks == {"OFXHEADER:", "<OFX>", "<ORG>Ally</ORG>"}
CapitalOneMarks == {"<?OFX", "<OFX>", "<ORG>C1</ORG>"}
EtradeMarks == {"OFXHEADER:", "<OFX>", "<ORG>E*TRADE"}
LfcuMarks == {"OFXHEADER:", "<OFX>", "<FID>16710</FID>"}
WsecuOfxMarks == {"OFXHEADER:", "<OFX>", "<BANKID>325181028"}
BacMarks ==
    {"Detalle de Estado Bancario", "Fecha de Transaccion", "Referencia de Transaccion",
     "Codigo de Transaccion"}
BacCreditMarks ==
    {"Pro000000000000duct", "Minimum payment/due date", "Cash payment/Due date",
     "Date, , Local, Dollars"}
BcrMarks ==
    {"<html>", "Banco de Costa Rica", "Movimientos de la cuenta", "Fecha contable",
     "Fecha transaccion"}
PdfMarks == {"%PDF-", "SYNCHRONY BANK"}

OfxMarks(layout) ==
    CASE layout = "ally_bank_ofx" -> AllyMarks
      [] layout = "capital_one_ofx" -> CapitalOneMarks
      [] layout = "etrade_ofx" -> EtradeMarks
      [] layout = "lfcu_ofx" -> LfcuMarks
      [] layout = "wsecu_ofx" -> WsecuOfxMarks

\* A file without any line.
EmptyFile == File("other", "text", <<>>, ",", <<>>, 0, {}, <<>>)

\* CSV exports whose balance is a column of the rows.
RowFile(layout, header, header4, pre, marks, acct, cur, rows) ==
    File(layout, "text", header, ",", header4, pre, marks,
         <<Stmt(acct, cur, EmptyAmount, EmptyAmount, -1, TRUE, rows)>>)

WsecuFiles ==
    {RowFile("wsecu", WSECU_ALL_FIELDS, <<>>, 1, {}, "", "USD", rows) :
        rows \in SeqsUpTo(WsecuRows, MaxRows)}

CreditHumanFiles ==
    {RowFile("credit_human", CREDIT_HUMAN_ALL_FIELDS, <<>>, 1, {}, "", "USD", rows) :
        rows \in SeqsUpTo(CreditHumanRows, MaxRows)}

DocfcuFiles ==
    {RowFile("docfcu", <<"Account Name :">>, DOCFCU_EXPECTED_HEADERS, 4, {}, "D1", "USD", rows) :
        rows \in SeqsUpTo(DebitCreditRows, MaxRows)}

BacFiles ==
    {RowFile("bac_san_jose", <<"(other)">>, <<>>, 5, BacMarks, "B1", "CRC", rows) :
        rows \in SeqsUpTo(DebitCreditRows, MaxRows) \cup {<<r>> : r \in SignedRows}}

BcrFiles ==
    {RowFile("banco_bcr", <<"(other)">>, <<>>, 1, BcrMarks, acct, "USD", rows) :
        acct \in {"CR1"},
        rows \in SeqsUpTo({r \in DebitCreditRows : r.date # 2}, MaxRows)
                 \cup {<<r>> : r \in SignedRows}}
    \cup {RowFile("banco_bcr", <<"(other)">>, <<>>, 1, BcrMarks, "", "USD", <<>>)}

NacionalFiles ==
    {[RowFile("banco_nacional", NACIONAL_HEADER, <<>>, 1, {}, "", "", rows) EXCEPT !.delim = ";"] :
        rows \in SeqsUpTo({r \in DebitCreditRows : r.date # 2}, MaxRows)
                 \cup {<<r>> : r \in SignedRows}
                 \cup {<<r, Row("txn", 1, EmptyAmount, Plain(300), Plain(0), "")>> :
                         r \in {Row("total", 1, EmptyAmount, Plain(300), Plain(0), ""),
                                Row("txn", -1, EmptyAmount, Plain(300), Plain(0), "")}}}

\* Statements of a BAC credit export: the cash payments in the two currencies
\* and the statement date.
BacCreditStmts ==
    {Stmt("1234", "", Plain(800), b2, 3, TRUE, rows) :
        b2 \in {Plain(0), Plain(90)}, rows \in SeqsUpTo(BacCreditRows, MaxRows)}
    \cup {Stmt("1234", "", Plain(0), b2, 3, TRUE, rows) :
            b2 \in {Plain(0), Plain(90)}, rows \in SeqsUpTo(BacCreditRows, 1)}
    \cup {Stmt("1234", "", Plain(800), b2, asof, TRUE, rows) :
            b2 \in {Plain(0), BadAmount}, asof \in {0, 3}, rows \in SeqsUpTo(BacCreditRows, 1)}
    \cup {Stmt("1234", "", Plain(800), b2, asof, TRUE,
               <<Row("card", -1, Plain(0), Plain(0), EmptyAmount, "1234"),
                 Row("txn", 1, Plain(500), Plain(0), EmptyAmount, "")>>) :
            b2 \in {Plain(0), BadAmount}, asof \in {0, 3}}

BacCreditFiles ==
    {File("bac_san_jose_credit", "text", <<"(other)">>, ",", <<>>, 4, BacCreditMarks, <<st>>) :
        st \in BacCreditStmts}

\* A STMTTRN element without NAME (None) or with a NAME without text (Some("")).
Unnamed(name) == [Row("txn", 1, Plain(-500), EmptyAmount, EmptyAmount, "") EXCEPT !.name = name]

\* Statements of an OFX file: with and without a ledger balance, with a
\* transaction list of any rows or without the list; one without an account
\* id, one of a second account, one whose balance date is no date; statements
\* with a row that has no name, alone, before and after a row that has one;
\* one whose row has the identifier "T1-" and the amount 5.00.
OfxStmts ==
    {Stmt("A1", "USD", Plain(-700), EmptyAmount, 3, TRUE, rows) :
        rows \in SeqsUpTo(OfxRows, MaxRows)}
    \cup {Stmt("A1", "USD", b, EmptyAmount, 3, TRUE, rows) :
            b \in {EmptyAmount, Plain(0)}, rows \in SeqsUpTo(OfxRows, 1)}
    \cup {Stmt("A1", "USD", b, EmptyAmount, 3, FALSE, <<>>) :
            b \in {EmptyAmount, Plain(0), Plain(-700)}}
    \cup {Stmt("", "USD", Plain(-700), EmptyAmount, 3, TRUE,
               <<Row("txn", 1, Plain(-500), EmptyAmount, EmptyAmount, "")>>),
          Stmt("A2", "USD", Plain(-700), EmptyAmount, 3, TRUE,
               <<Row("txn", 1, Plain(-500), EmptyAmount, EmptyAmount, "")>>),
          Stmt("A1", "USD", Plain(-700), EmptyAmount, 0, TRUE,
               <<Row("txn", 1, Plain(-500), EmptyAmount, EmptyAmount, "")>>)}
    \cup {Stmt("A1", "USD", Plain(-700), EmptyAmount, 3, TRUE, rows) :
            rows \in UNION {{<<Unnamed(name)>>,
                             <<Unnamed(name), Row("txn", 2, Plain(-500), EmptyAmount, EmptyAmount, "")>>,
                             <<Row("txn", 2, Plain(-500), EmptyAmount, EmptyAmount, ""), Unnamed(name)>>} :
                            name \in {None, Some("")}}}
    \cup {Stmt("A1", "USD", Plain(-700), EmptyAmount, 3, TRUE,
               <<[Row("txn", 1, Plain(500), EmptyAmount, EmptyAmount, "") EXCEPT !.id = "T1-"]>>)}

OfxLayouts == {"ally_bank_ofx", "capital_one_ofx", "etrade_ofx", "lfcu_ofx", "wsecu_ofx"}

OfxFile(layout, stmts) == File(layout, "text", <<"(other)">>, ",", <<>>, 1, OfxMarks(layout), stmts)

OfxFiles ==
    {OfxFile(layout, stmts) :
        layout \in OfxLayouts, stmts \in {<<>>} \cup {<<st>> : st \in OfxStmts}}
    \cup {[OfxFile(layout, <<st>>) EXCEPT !.ofxtools = "elements"] :
            layout \in {"ally_bank_ofx", "capital_one_ofx"},
            st \in {x \in OfxStmts : Len(x.txns) <= 1}}

\* Statements of a PDF: the account, the current balance if the text has one,
\* the matches of the transaction pattern.
PdfFiles ==
    {File("synchrony_pdf", "binary", <<"(other)">>, ",", <<>>, 1, PdfMarks,
          <<Stmt("A1", "USD", b, EmptyAmount, -1, TRUE, rows)>>) :
        b \in {EmptyAmount, Plain(0), Plain(700)}, rows \in SeqsUpTo(PdfRows, MaxRows)}
    \cup {File("synchrony_pdf", "text", <<"(other)">>, ",", <<>>, 1, PdfMarks,
               <<Stmt("A1", "USD", b, EmptyAmount, -1, TRUE, rows)>>) :
            b \in {EmptyAmount, Plain(700)}, rows \in SeqsUpTo(PdfRows, 1)}

\* The file each plugin is made for: its sample.
Sample(p) ==
    LET row == Row("txn", 2, Plain(-500), EmptyAmount, Plain(-700), "A1")
        both == Row("txn", 2, Plain(500), EmptyAmount, Plain(-700), "")
        st == Stmt("A1", "USD", Plain(-700), EmptyAmount, 3, TRUE,
                   <<Row("txn", 2, Plain(-500), EmptyAmount, EmptyAmount, "")>>)
    IN  CASE p = "wsecu" -> RowFile("wsecu", WSECU_ALL_FIELDS, <<>>, 1, {}, "", "USD", <<row>>)
          [] p = "credit_human" ->
               RowFile("credit_human", CREDIT_HUMAN_ALL_FIELDS, <<>>, 1, {}, "", "USD",
                       <<Row("txn", 2, Dollar(-500), EmptyAmount, Dollar(-700), "A1")>>)
          [] p = "docfcu" ->
               RowFile("docfcu", <<"Account Name :">>, DOCFCU_EXPECTED_HEADERS, 4, {}, "D1",
                       "USD", <<both>>)
          [] p = "bac_san_jose" ->
               RowFile("bac_san_jose", <<"(other)">>, <<>>, 5, BacMarks, "B1", "CRC", <<both>>)
          [] p = "banco_bcr" ->
               RowFile("banco_bcr", <<"(other)">>, <<>>, 1, BcrMarks, "CR1", "USD",
                       <<Row("txn", 1, Plain(500), EmptyAmount, Plain(-700), "")>>)
          [] p = "banco_nacional" ->
               [RowFile("banco_nacional", NACIONAL_HEADER, <<>>, 1, {}, "", "",
                        <<Row("txn", 1, Plain(500), EmptyAmount, Plain(-700), "")>>)
                   EXCEPT !.delim = ";"]
          [] p = "bac_san_jose_credit" ->
               File("bac_san_jose_credit", "text", <<"(other)">>, ",", <<>>, 4, BacCreditMarks,
                    <<Stmt("1234", "", Plain(800), Plain(0), 3, TRUE,
                           <<Row("card", -1, Plain(0), Plain(0), EmptyAmount, "1234"),
                             Row("txn", 1, Plain(500), Plain(0), EmptyAmount, "")>>)>>)
          [] p = "synchrony_pdf" ->
               File("synchrony_pdf", "binary", <<"(other)">>, ",", <<>>, 1, PdfMarks,
                    <<Stmt("A1", "USD", Plain(700), EmptyAmount, -1, TRUE,
                           <<Row("txn", 2, Plain(500), EmptyAmount, EmptyAmount, "")>>)>>)
          [] p \in OfxLayouts -> OfxFile(p, <<st>>)
          [] OTHER -> File(p, "text", <<"(other)">>, ",", <<>>, 1, {p}, <<>>)

\* Files off the samples: text of no format, files that raise when read,
\* binary streams, files that carry the markers of two plugins.
OddFiles ==
    {EmptyFile, File("other", "text", <<"(other)">>, ",", <<>>, 1, {}, <<>>)}
    \cup {[Sample(p) EXCEPT !.fails = TRUE] : p \in SourcePlugins}
    \cup {[Sample(p) EXCEPT !.mode = "binary"] : p \in SourcePlugins \ {"synchrony_pdf"}}
    \cup {[Sample("lfcu_ofx") EXCEPT !.marks = AllyMarks \cup LfcuMarks],
          [Sample("wsecu") EXCEPT !.marks = {"csv"}],
          [Sample("mercury") EXCEPT !.marks = {"mercury", "csv"}]}

\* An oldest-first BAC bank export of three rows: a credit of 100.00 on day 1,
\* a debit of 40.00 on day 2, a credit of 5.00 on day 3, the running balance
\* ending at 65.00 (amounts in cents).
RoundTripFile ==
    RowFile("bac_san_jose", <<"(other)">>, <<>>, 5, BacMarks, "B1", "CRC",
            <<Row("txn", 1, Plain(0), Plain(10000), Plain(10000), ""),
              Row("txn", 2, Plain(4000), Plain(0), Plain(6000), ""),
              Row("txn", 3, Plain(0), Plain(500), Plain(6500), "")>>)

\* Files of three rows whose second row does not parse: a WSECU export with an
\* amount that is no number, a Synchrony statement with a date that is no date;
\* the round-trip file; a BAC credit export of two purchases of one card.
ThreeRowFiles ==
    {RoundTripFile,
     File("bac_san_jose_credit", "text", <<"(other)">>, ",", <<>>, 4, BacCreditMarks,
          <<Stmt("1234", "", Plain(800), Plain(90), 3, TRUE,
                 <<Row("card", -1, Plain(0), Plain(0), EmptyAmount, "1234"),
                   Row("txn", 1, Plain(500), Plain(0), EmptyAmount, ""),
                   Row("txn", 1, Plain(0), Plain(90), EmptyAmount, "")>>)>>),
     RowFile("wsecu", WSECU_ALL_FIELDS, <<>>, 1, {}, "", "USD",
             <<Row("txn", 2, Plain(-500), EmptyAmount, Plain(-700), "A1"),
               Row("txn", 2, BadAmount, EmptyAmount, Plain(-700), "A1"),
               Row("txn", 1, Plain(-500), EmptyAmount, Plain(-700), "A1")>>),
     File("synchrony_pdf", "binary", <<"(other)">>, ",", <<>>, 1, PdfMarks,
          <<Stmt("A1", "USD", Plain(700), EmptyAmount, -1, TRUE,
                 <<Row("txn", 2, Plain(500), EmptyAmount, EmptyAmount, ""),
                   Row("txn", 0, Plain(500), EmptyAmount, EmptyAmount, ""),
                   Row("txn", 1, Plain(500), EmptyAmount, EmptyAmount, "")>>)>>)}

Files ==
    ThreeRowFiles \cup WsecuFiles \cup CreditHumanFiles \cup DocfcuFiles \cup BacFiles \cup BacCreditFiles
    \cup BcrFiles \cup NacionalFiles \cup OfxFiles \cup PdfFiles
    \cup {Sample(p) : p \in SourcePlugins \cup ImportedPlugins} \cup OddFiles

(***************************************************************************)
(* The state machine: one stream, and the last call made on it.            *)
(***************************************************************************)
\* last: the operation, the plugin it was called on, whether the stream stood
\* at its start when the call was made (rewound), whether the call raised, and
\* its result: ok of detect(), chosen of detect_extractor(), fp of
\* fingerprint(), txns the records of extract().
NoCall ==
    [op |-> "none", plugin |-> "", rewound |-> TRUE, raised |-> FALSE, ok |-> FALSE,
     chosen |-> None, fp |-> None, txns |-> <<>>]

Init ==
    /\ \E c \in Files : \E pos \in 0..Size(c) : input_file = [content |-> c, pos |-> pos]
    /\ last = NoCall

\* cls(input_file).detect() of any plugin of the package on the stream as it
\* stands.
Detect ==
    \E p \in SourcePlugins :
        LET r == detect(p, input_file)
        IN  /\ input_file' = r.s
            /\ last' = [NoCall EXCEPT !.op = "detect", !.plugin = p, !.raised = r.raised,
                                      !.rewound = (input_file.pos = 0), !.ok = r.value]

DetectExtractor ==
    LET r == detect_extractor(input_file)
    IN  /\ input_file' = r.s
        /\ last' = [NoCall EXCEPT !.op = "detect_extractor", !.raised = r.raised,
                                  !.rewound = (input_file.pos = 0), !.chosen = r.value]

\* cls(input_file).fingerprint() of any plugin of the package.
DoFingerprint ==
    \E p \in SourcePlugins :
        LET r == fingerprint(p, input_file)
        IN  /\ input_file' = r.s
            /\ last' = [NoCall EXCEPT !.op = "fingerprint", !.plugin = p, !.raised = r.raised,
                                      !.rewound = (input_file.pos = 0), !.fp = r.value]

\* list(cls(input_file)()) of the plugin the file is laid out for.
Extract ==
    \E p \in SourcePlugins :
        /\ input_file.content.layout = p
        /\ LET r == extract(p, input_file)
           IN  /\ input_file' = r.s
               /\ last' = [NoCall EXCEPT !.op = "extract", !.plugin = p, !.raised = r.raised,
                                         !.rewound = (input_file.pos = 0),
                                         !.txns = r.txns]

Next == Detect \/ DetectExtractor \/ DoFingerprint \/ Extract

Spec == Init /\ [][Next]_vars

(***************************************************************************)
(* Properties of the contract: detection.                                  *)
(***************************************************************************)
\* The stream of the current state rewound to its start.
Fresh == [content |-> input_file.content, pos |-> 0]

\* C1: when detect() of a plugin returns, the read position of the stream is
\* the position it had immediately before the call, whatever it was, on
\* matching and non-matching input alike.
C1_DetectRestoresPosition ==
    [][last'.op = "detect" => input_file'.pos = input_file.pos]_vars

\* The registered plugins, by index, whose detect() accepts the stream's content.
Accepting == {i \in 1..Len(ALL_EXTRACTORS) : detect(ALL_EXTRACTORS[i], Fresh).value}

\* C2: detect_extractor returns the first plugin in registration order whose
\* detect() is true, and returns None, without raising and without a default,
\* exactly when no registered plugin's detect() is true.
C2_FirstMatchInRegistrationOrder ==
    last.op = "detect_extractor" =>
        /\ ~last.raised
        /\ (last.chosen = None) <=> (Accepting = {})
        /\ \A i \in Accepting :
             (\A j \in Accepting : i <= j) => last.chosen = Some(ALL_EXTRACTORS[i])

\* detect_extractor was called, away from the start of a file that two
\* registered plugins accept, and returned the one registered first.
C2_Witness ==
    /\ last.op = "detect_extractor" /\ ~last.rewound
    /\ Cardinality(Accepting) >= 2
    /\ last.chosen = Some("ally_bank_ofx")
    /\ "lfcu_ofx" \in {ALL_EXTRACTORS[i] : i \in Accepting}

\* C3: detect() never raises; on any input, an empty one, one of another
\* format, one whose reads fail, an internal error becomes the result False.
C3_DetectNeverRaises ==
    last.op = "detect" =>
        /\ ~last.raised
        /\ input_file.content.fails => ~last.ok

\* detect() of a plugin was called on its own sample made to fail on read,
\* and returned False.
C3_Witness ==
    /\ last.op = "detect" /\ ~last.raised /\ ~last.ok
    /\ input_file.content = [Sample(last.plugin) EXCEPT !.fails = TRUE]

\* C4: for the sample input of each plugin, detect_extractor selects exactly
\* that plugin; every extractor class of the package is selectable for its
\* own sample.
C4_SampleSelectsItsPlugin ==
    \A p \in SourcePlugins :
        last.op = "detect_extractor" /\ input_file.content = Sample(p)
            => last.chosen = Some(p)

\* C5: fingerprint() never raises; an error while parsing, choosing the anchor
\* or hashing makes it return None.
C5_FingerprintNeverRaises ==
    last.op = "fingerprint" =>
        /\ ~last.raised
        /\ input_file.content.fails => last.fp = None

\* fingerprint() of a plugin was called on its own sample made to fail on
\* read, and returned None.
C5_Witness ==
    /\ last.op = "fingerprint" /\ ~last.raised /\ last.fp = None
    /\ input_file.content = [Sample(last.plugin) EXCEPT !.fails = TRUE]

(***************************************************************************)
(* Properties of the contract: results and balance records.                *)
(***************************************************************************)
\* C6: results depend only on the stream's content, not on the calls made
\* before: from any position earlier calls left the stream at, fingerprint()
\* returns the Fingerprint, and a drained extract() the sequence of records
\* (the balance record's transaction_id included), that the same call gives on
\* the untouched stream.
C6_ResultsDependOnContentOnly ==
    /\ last.op = "fingerprint" =>
         LET r == fingerprint(last.plugin, Fresh)
         IN  last.fp = r.value /\ last.raised = r.raised
    /\ last.op = "extract" =>
         LET r == extract(last.plugin, Fresh)
         IN  last.txns = r.txns /\ last.raised = r.raised

\* The balance records of the last extract().
Balances == SelectSeq(last.txns, LAMBDA t : t.type = Some("BALANCE"))

\* extract() of wsecu ran from a position off the start an earlier call left,
\* and yielded a literal row and its balance record with a transaction_id.
C6_Witness ==
    /\ last.op = "extract" /\ last.plugin = "wsecu" /\ ~last.rewound /\ ~last.raised
    /\ Len(last.txns) = 2 /\ Len(Balances) = 1
    /\ Balances[1].transaction_id # None

\* The statement of the stream's file.
Statement == input_file.content.stmts[1]

\* A drained extract() of the plugin the file is made for, on readable text
\* with a statement.
Drained ==
    /\ last.op = "extract" /\ ~last.raised
    /\ input_file.content.stmts # <<>>
    /\ ~input_file.content.fails

RowLayouts == {"wsecu", "credit_human", "docfcu"}

\* The rows whose date is a date, by index.
Dated == {i \in 1..Len(Statement.txns) : Statement.txns[i].date >= 1}

\* The anchor row of a newest-first export: the first row with a date.
AnchorRow == Statement.txns[CHOOSE i \in Dated : \A j \in Dated : i <= j]

\* The ending balances the source states, by currency: the ledger balance with
\* its as-of date of an OFX statement, the running balance of the anchor row
\* of a CSV export, the cash payments of a BAC credit header.
StatedBalances ==
    LET c == input_file.content
        st == Statement
    IN  CASE c.layout \in OfxLayouts ->
               IF st.bal.k = "plain" /\ st.asof >= 1
               THEN {[currency |-> st.cur, amount |-> st.bal.v]} ELSE {}
          [] c.layout \in RowLayouts ->
               IF Dated # {} /\ AnchorRow.bal.k \in {"plain", "dollar"}
               THEN {[currency |-> "USD", amount |-> AnchorRow.bal.v]} ELSE {}
          [] c.layout = "bac_san_jose_credit" ->
               (IF st.bal.k = "plain" THEN {[currency |-> "CRC", amount |-> st.bal.v]} ELSE {})
               \cup (IF st.bal2.k = "plain" THEN {[currency |-> "USD", amount |-> st.bal2.v]} ELSE {})
          [] OTHER -> {}

\* C7: whenever the source states an ending balance, extract() emits exactly
\* one BALANCE record for it, also for a statement without literal
\* transactions and for a balance of 0.00.
C7_OneBalancePerStatedBalance ==
    Drained /\ input_file.content.mode = "text" =>
        \A b \in StatedBalances :
            Cardinality({i \in 1..Len(Balances) : Balances[i].currency = Some(b.currency)}) = 1

\* C8: one extract() emits at most one BALANCE record per (account,
\* currency); a BAC San Jose credit statement with a local and a dollar
\* amount emits exactly one BALANCE record per currency.
C8_OneBalancePerAccountAndCurrency ==
    last.op = "extract" =>
        /\ \A i, j \in 1..Len(Balances) :
             /\ Balances[i].source_account = Balances[j].source_account
             /\ Balances[i].currency = Balances[j].currency
             => i = j
        /\ /\ Drained /\ last.plugin = "bac_san_jose_credit"
           /\ Statement.bal.k = "plain" /\ Statement.bal.v # 0
           /\ Statement.bal2.k = "plain" /\ Statement.bal2.v # 0
           => /\ Len(Balances) = 2
              /\ {Balances[i].currency : i \in 1..2} = {Some("CRC"), Some("USD")}

\* extract() of a BAC credit statement with both cash payments and a purchase
\* yielded the purchase and one balance record in each currency.
C8_Witness ==
    /\ Drained /\ last.plugin = "bac_san_jose_credit"
    /\ Statement.bal = Plain(800) /\ Statement.bal2 = Plain(90)
    /\ Len(last.txns) = 3 /\ Len(Balances) = 2
    /\ Balances[1].currency = Some("CRC") /\ Balances[2].currency = Some("USD")

\* The ending balance the source reports in a currency: the ledger balance or
\* available cash of an OFX statement, the current balance of a PDF, the
\* running balance of the anchor row of a CSV export (the last row of the
\* oldest-first BAC bank export), the cash payment of a BAC credit header.
ReportedBalance(currency) ==
    LET c == input_file.content
        st == Statement
    IN  CASE c.layout \in OfxLayouts \cup {"synchrony_pdf"} -> st.bal.v
          [] c.layout \in RowLayouts -> AnchorRow.bal.v
          [] c.layout = "bac_san_jose" -> st.txns[Len(st.txns)].bal.v
          [] c.layout = "bac_san_jose_credit" ->
               IF currency = Some("CRC") THEN st.bal.v ELSE st.bal2.v

\* C9: the amount of every BALANCE record equals the ending balance the
\* source reports, same sign and value, for every plugin that emits them.
C9_BalanceAmountIsReportedBalance ==
    last.op = "extract" =>
        \A i \in 1..Len(Balances) : Balances[i].amount = ReportedBalance(Balances[i].currency)

\* C9, as the code has it: the amount of every BALANCE record equals the
\* ending balance the source reports, except that the BAC San Jose credit
\* plugin emits the negation of the cash payment of the header (an amount
\* owed on a liability account).
C9_BalanceAmountIsReportedOrNegatedPayment ==
    last.op = "extract" =>
        \A i \in 1..Len(Balances) :
            Balances[i].amount =
                IF last.plugin = "bac_san_jose_credit"
                THEN 0 - ReportedBalance(Balances[i].currency)
                ELSE ReportedBalance(Balances[i].currency)

\* extract() of a BAC credit statement with a cash payment of 800 yielded a
\* balance record of -800 in the local currency.
C9_Witness ==
    /\ Drained /\ last.plugin = "bac_san_jose_credit"
    /\ Statement.bal = Plain(800)
    /\ Len(Balances) >= 1
    /\ Balances[1].currency = Some("CRC") /\ Balances[1].amount = 0 - 800

\* The date of the chronologically last row with a date.
LastDate ==
    LET ds == {Statement.txns[i].date : i \in Dated}
    IN  CHOOSE d \in ds : \A e \in ds : e <= d

\* C10: date and post_date of a BALANCE record are the as-of date the source
\* states (OFX ledger balance, BAC credit statement date); for the newest-first
\* sources without one (WSECU, Credit Human, DOCFCU, Synchrony) they are the
\* date of the chronologically last real transaction plus one day, on every
\* input, also when the first row is skipped or the rows are not sorted.
C10_BalanceDateIsAsOfOrLastPlusOne ==
    LET layout == input_file.content.layout
        expected == IF layout \in OfxLayouts \cup {"bac_san_jose_credit"}
                    THEN Statement.asof ELSE LastDate + 1
    IN  last.op = "extract" /\ layout \in OfxLayouts \cup RowLayouts \cup {"bac_san_jose_credit", "synchrony_pdf"}
        => \A i \in 1..Len(Balances) :
              Balances[i].date = Some(expected) /\ Balances[i].post_date = Some(expected)

(***************************************************************************)
(* Properties of the contract: identifiers, errors and fingerprints.       *)
(***************************************************************************)
\* extract() of the plugin a file is made for, on the untouched file.
ExtractOf(c) == extract(c.layout, [content |-> c, pos |-> 0])

\* The balance records of a sequence of records.
BalancesOf(txns) == SelectSeq(txns, LAMBDA t : t.type = Some("BALANCE"))

\* The files of the layout of the stream's file.
SameLayoutFiles == {c \in Files : c.layout = input_file.content.layout /\ c.stmts # <<>>}

\* C11: the transaction_id of a BALANCE record is determined by the as-of date
\* and the account identifier (and the currency): two balance records of one
\* plugin that differ in account identifier or in as-of date never have the
\* same transaction_id.
C11_BalanceIdSeparatesAccountsAndDates ==
    last.op = "extract" =>
        \A c \in SameLayoutFiles :
            LET other == BalancesOf(ExtractOf(c).txns)
            IN  \A i \in 1..Len(Balances), j \in 1..Len(other) :
                    \/ Balances[i].source_account # other[j].source_account
                    \/ Balances[i].date # other[j].date
                    => Balances[i].transaction_id # other[j].transaction_id

\* The anchor row of a CSV export states no balance: its Balance field is
\* empty or is no number.
NoObservableBalance ==
    /\ input_file.content.layout \in RowLayouts
    /\ input_file.content.stmts # <<>>
    /\ Dated # {}
    /\ AnchorRow.bal.k \in {"empty", "bad"}

\* C12: when no ending balance is observable, the Balance field of the anchor
\* row being empty or no number, extract() emits no BALANCE record and
\* completes without raising.
C12_NoBalanceIsNoError ==
    /\ last.op = "extract" /\ NoObservableBalance
    /\ input_file.content.mode = "text" /\ ~input_file.content.fails
    => ~last.raised /\ Balances = <<>>

\* The literal records of the last extract().
Literals == SelectSeq(last.txns, LAMBDA t : t.type # Some("BALANCE"))

\* The rows of the statement that parse, by index: a date that is a date and
\* an amount that is a number.
ParsedRows ==
    {i \in 1..Len(Statement.txns) :
        Statement.txns[i].date >= 1 /\ Statement.txns[i].amt.k = "plain"}

\* The k-th row that parses.
NthParsed(k) == CHOOSE i \in ParsedRows : Cardinality({j \in ParsedRows : j <= i}) = k

\* C13: a lenient plugin skips a row that does not parse and emits every other
\* row with its original lineno: of three rows with a bad second one it yields
\* the literal records of rows 1 and 3 with lineno 1 and 3.
C13_SkippedRowsKeepLineno ==
    /\ last.op = "extract" /\ last.plugin \in {"wsecu", "synchrony_pdf"}
    /\ input_file.content.stmts # <<>> /\ ~input_file.content.fails
    /\ input_file.content.mode = (IF last.plugin = "wsecu" THEN "text" ELSE "binary")
    => /\ Len(Literals) = Cardinality(ParsedRows)
       /\ \A k \in 1..Len(Literals) : Literals[k].lineno = NthParsed(k)

\* C14: when the statement-level data that attributes the rows is absent,
\* here the account identifier of the statement, extract() raises, for every
\* plugin; it never completes normally with an empty or partial sequence.
C14_MissingAccountIsFatal ==
    /\ last.op = "extract" /\ last.plugin \in OfxLayouts \cup {"banco_bcr"}
    /\ input_file.content.stmts # <<>> /\ Statement.acct = ""
    /\ input_file.content.mode = "text" /\ ~input_file.content.fails
    => last.raised

\* C15: round trip on the oldest-first BAC San Jose bank export: three rows
\* dated day 1 (+100.00), day 2 (-40.00), day 3 (+5.00) with a final running
\* balance of 65.00 give exactly four records, the three literal rows in file
\* order with lineno 1, 2, 3, then one BALANCE record dated day 4 of 65.00.
C15_BacBankRoundTrip ==
    last.op = "extract" /\ input_file.content = RoundTripFile =>
        /\ ~last.raised
        /\ Len(last.txns) = 4
        /\ \A i \in 1..3 :
             /\ last.txns[i].lineno = i
             /\ last.txns[i].type = None
             /\ last.txns[i].date = Some(i)
        /\ <<last.txns[1].amount, last.txns[2].amount, last.txns[3].amount>>
             = <<10000, 0 - 4000, 500>>
        /\ last.txns[4].type = Some("BALANCE")
        /\ last.txns[4].date = Some(4)
        /\ last.txns[4].amount = 6500

\* extract() of bac_san_jose ran on the round-trip file and yielded four records.
C15_Witness ==
    /\ last.op = "extract" /\ last.plugin = "bac_san_jose"
    /\ input_file.content = RoundTripFile
    /\ Len(last.txns) = 4 /\ Len(Balances) = 1

\* C16: fingerprint() returns None whenever the anchor row or its date cannot
\* be determined; a Fingerprint it returns never carries a placeholder date:
\* its starting_date is a date read from the source.
C16_NoPlaceholderFingerprint ==
    last.op = "fingerprint" /\ last.fp # None =>
        /\ last.fp[1].starting_date # EPOCH
        /\ last.fp[1].starting_date >= 1

\* C17: whenever fingerprint() returns a value, for any plugin, first_row_hash
\* is the whole SHA-256 digest in hexadecimal, 64 characters.
C17_HashIsWholeDigest ==
    last.op = "fingerprint" /\ last.fp # None =>
        last.fp[1].first_row_hash.len = 64

\* C17, as the code has it: first_row_hash is the whole SHA-256 digest, 64
\* hexadecimal characters, for every plugin but Synchrony PDF, whose
\* first_row_hash is the first 16 characters of the digest; the length is
\* fixed per plugin.
C17_HashLengthIsFixedPerPlugin ==
    last.op = "fingerprint" /\ last.fp # None =>
        last.fp[1].first_row_hash.len = (IF last.plugin = "synchrony_pdf" THEN 16 ELSE 64)

\* fingerprint() of synchrony_pdf returned a Fingerprint for a statement with a
\* transaction, its hash 16 characters long.
C17_Witness ==
    /\ last.op = "fingerprint" /\ last.plugin = "synchrony_pdf"
    /\ last.fp # None
    /\ last.fp[1].starting_date >= 1
    /\ last.fp[1].first_row_hash.len = 16

OldestFirst == {"bac_san_jose", "banco_bcr"}
NewestFirst == {"wsecu", "credit_human", "docfcu", "synchrony_pdf"}

\* The statement has rows, all dated, in the native order of its source.
InNativeOrder ==
    LET rows == Statement.txns
    IN  /\ rows # <<>>
        /\ \A i \in 1..Len(rows) : rows[i].date >= 1
        /\ \A i, j \in 1..Len(rows) :
             i < j => IF input_file.content.layout \in OldestFirst
                      THEN rows[i].date <= rows[j].date
                      ELSE rows[i].date >= rows[j].date

\* C18: the anchor row of the fingerprint, which gives starting_date, is the
\* first row of an oldest-first source (BAC San Jose bank, Banco BCR) and the
\* most recent row of a newest-first source (WSECU, Credit Human, DOCFCU,
\* Synchrony): in a file in native order, the first row in either case.
C18_AnchorIsFirstOrMostRecentRow ==
    /\ last.op = "fingerprint" /\ last.fp # None
    /\ last.plugin = input_file.content.layout
    /\ last.plugin \in OldestFirst \cup NewestFirst
    /\ input_file.content.stmts # <<>> /\ InNativeOrder
    => last.fp[1].starting_date = Statement.txns[1].date

\* The rows without the d-th one.
WithoutRow(rows, d) == SubSeq(rows, 1, d - 1) \o SubSeq(rows, d + 1, Len(rows))

\* The files that are the stream's file less one row that precedes others: its
\* first row, or the first row after the card line of a BAC credit export.
ShorterExports ==
    LET c == input_file.content
        d == IF c.layout = "bac_san_jose_credit" THEN 2 ELSE 1
    IN  IF c.stmts = <<>> \/ Len(Statement.txns) <= d THEN {}
        ELSE {[c EXCEPT !.stmts = <<[Statement EXCEPT !.txns = WithoutRow(Statement.txns, d)]>>]}
             \cap Files

\* C19: the transaction_id of a record is a function of its own source row
\* only: a row of an export keeps its transaction_id in the export that lacks
\* a row before it (where the row stands one line higher).
C19_IdIsFunctionOfRow ==
    /\ last.op = "extract" /\ ~last.raised
    /\ last.plugin # "synchrony_pdf"
    => \A c \in ShorterExports :
          LET shorter == ExtractOf(c)
              other == SelectSeq(shorter.txns, LAMBDA t : t.type # Some("BALANCE"))
          IN  ~shorter.raised =>
                \A i \in 1..Len(Literals), j \in 1..Len(other) :
                    Literals[i].lineno = other[j].lineno + 1
                    => Literals[i].transaction_id = other[j].transaction_id

\* The record has a value for the placeholder: the field exists and is not
\* None (extractor is a required field).
Populated(t, field) ==
    IF field = "extractor" THEN TRUE
    ELSE IF field \notin DOMAIN t THEN FALSE
    ELSE t[field] # None

\* C20: every placeholder of the plugin's DEFAULT_IMPORT_ID names a field that
\* is not None in every record the plugin emits, the BALANCE record included.
C20_TemplateFieldsArePopulated ==
    last.op = "extract"
    => \A i \in 1..Len(last.txns) :
          \A field \in DEFAULT_IMPORT_ID(last.plugin) : Populated(last.txns[i], field)

(***************************************************************************)
(* Properties of the records and of the rows the plugins read.             *)
(***************************************************************************)
\* C21: every record a plugin emits has a desc that is a string, never None,
\* also when the source row has no name or description element.
C21_DescIsNeverNull ==
    last.op = "extract" => \A i \in 1..Len(last.txns) : last.txns[i].desc # None

DebitCreditPlugins == {"banco_bcr", "banco_nacional", "bac_san_jose"}

\* The column holds a number other than zero.
NonZero(t) == t.k = "plain" /\ t.v # 0

\* The amounts the rows are to give, in order: minus the size of a non-zero
\* debit, else a non-zero credit, else nothing.
SignedAmounts(rows) ==
    Concat([i \in 1..Len(rows) |->
              IF NonZero(rows[i].amt)
              THEN <<0 - (IF rows[i].amt.v < 0 THEN 0 - rows[i].amt.v ELSE rows[i].amt.v)>>
              ELSE IF NonZero(rows[i].amt2) THEN <<rows[i].amt2.v>>
              ELSE <<>>])

\* C22: in the debit/credit-column plugins a row with a non-zero debit gives
\* amount = -|debit|, a row with a non-zero credit and an empty or zero debit
\* gives amount = +credit, and a row is skipped exactly when both columns are
\* empty or zero (rows whose dates are dates).
C22_DebitCreditSigns ==
    /\ last.op = "extract" /\ ~last.raised
    /\ last.plugin \in DebitCreditPlugins /\ last.plugin = input_file.content.layout
    /\ input_file.content.stmts # <<>>
    /\ input_file.content.mode = "text" /\ ~input_file.content.fails
    /\ Statement.acct # "" \/ last.plugin = "banco_nacional"
    /\ \A i \in 1..Len(Statement.txns) : ~parse_date(Statement.txns[i].date).exc
    => [i \in 1..Len(Literals) |-> Literals[i].amount] = SignedAmounts(Statement.txns)

\* The rows of a Banco Nacional export that give a record: a date, no TOTAL,
\* a debit or a credit other than zero.
NacionalRows ==
    {i \in 1..Len(Statement.txns) :
        /\ ~parse_date(Statement.txns[i].date).exc /\ Statement.txns[i].kind # "total"
        /\ NonZero(Statement.txns[i].amt) \/ NonZero(Statement.txns[i].amt2)}

NthNacional(k) == CHOOSE i \in NacionalRows : Cardinality({j \in NacionalRows : j <= i}) = k

\* C23: in the Banco Nacional plugin the lineno of each record is the line
\* number of its source line in the file, the header being line 1, also when
\* TOTAL rows or rows with an empty date come before it.
C23_NacionalLinenoIsFileLine ==
    /\ last.op = "extract" /\ ~last.raised
    /\ last.plugin = "banco_nacional" /\ input_file.content.layout = "banco_nacional"
    /\ input_file.content.stmts # <<>>
    /\ input_file.content.mode = "text" /\ ~input_file.content.fails
    => /\ Len(Literals) = Cardinality(NacionalRows)
       /\ \A k \in 1..Len(Literals) : Literals[k].lineno = NthNacional(k) + 1

\* C24: in the WSECU CSV plugin the record of the i-th data row (0-based) of
\* n has reversed_lineno = i - n, so the last row has -1, and a row keeps its
\* reversed_lineno in the export that has one newer row before it.
C24_ReversedLinenoCountsFromEnd ==
    /\ last.op = "extract" /\ last.plugin = "wsecu"
    /\ input_file.content.layout = "wsecu" /\ input_file.content.stmts # <<>>
    => /\ \A k \in 1..Len(Literals) :
            /\ Literals[k].reversed_lineno
                 = Some((Literals[k].lineno - 1) - Len(Statement.txns))
            /\ Literals[k].lineno = Len(Statement.txns)
                 => Literals[k].reversed_lineno = Some(-1)
       /\ \A c \in ShorterExports :
            LET other == SelectSeq(ExtractOf(c).txns, LAMBDA t : t.type # Some("BALANCE"))
            IN  \A i \in 1..Len(Literals), j \in 1..Len(other) :
                    Literals[i].lineno = other[j].lineno + 1
                    => Literals[i].reversed_lineno = other[j].reversed_lineno

C24_Witness ==
    /\ last.op = "extract" /\ last.plugin = "wsecu"
    /\ input_file.content.layout = "wsecu" /\ input_file.content.stmts # <<>>
    /\ Len(Statement.txns) = 3 /\ Len(Literals) = 2
    /\ Literals[2].lineno = 3 /\ Literals[2].reversed_lineno = Some(-1)
    /\ \E c \in ShorterExports :
          \E j \in 1..Len(ExtractOf(c).txns) :
              /\ ExtractOf(c).txns[j].type # Some("BALANCE")
              /\ ExtractOf(c).txns[j].lineno = 2

\* The transaction lines of a BAC credit export that carry an amount and
\* cannot be parsed: a date that is no date, an amount that is no number, or
\* no card grouping line before them.
Unparsable ==
    {i \in 1..Len(Statement.txns) :
        LET row == Statement.txns[i]
            none(t) == IsZeroText(t) \/ t.k = "empty"
            used == IF ~none(row.amt) THEN row.amt ELSE row.amt2
        IN  /\ row.kind = "txn"
            /\ ~(none(row.amt) /\ none(row.amt2))
            /\ \/ parse_date(row.date).exc
               \/ Decimal(used).exc
               \/ \A j \in 1..(i - 1) : Statement.txns[j].kind # "card"}

\* C25: the BAC credit plugin is strict: a row of the transaction section that
\* cannot be parsed makes extract() raise; no such row is skipped.
C25_BacCreditIsStrict ==
    /\ last.op = "extract" /\ last.plugin = "bac_san_jose_credit"
    /\ input_file.content.layout = "bac_san_jose_credit"
    /\ input_file.content.stmts # <<>>
    /\ Unparsable # {}
    => last.raised

LenientOfxPlugins == {"ally_bank_ofx", "capital_one_ofx", "lfcu_ofx", "wsecu_ofx"}

\* The STMTTRN elements whose date, amount or name cannot be parsed.
Malformed ==
    {i \in 1..Len(Statement.txns) :
        \/ parse_date(Statement.txns[i].date).exc
        \/ Decimal(Statement.txns[i].amt).exc
        \/ Statement.txns[i].name = Some("")}

\* C26: in the OFX plugins that skip malformed transactions a transaction whose
\* date, amount or name cannot be parsed is skipped, and extract() goes on with
\* the remaining transactions without raising (a statement with an account, a
\* transaction list and a dated balance, every STMTTRN with a NAME element).
C26_OfxSkipsMalformed ==
    /\ last.op = "extract" /\ last.plugin \in LenientOfxPlugins
    /\ input_file.content.layout = last.plugin
    /\ input_file.content.mode = "text" /\ ~input_file.content.fails
    /\ input_file.content.stmts # <<>>
    /\ Statement.acct # "" /\ Statement.hasList /\ ~parse_date(Statement.asof).exc
    /\ \A i \in 1..Len(Statement.txns) : Statement.txns[i].name # None
    /\ Malformed # {}
    => /\ ~last.raised
       /\ Len(Literals) = Len(Statement.txns) - Cardinality(Malformed)

C28_AnchorIsNeverTheBalance ==
    /\ last.op = "fingerprint" /\ last.plugin \in OfxLayouts
    /\ input_file.content.layout = last.plugin
    /\ input_file.content.stmts # <<>>
    /\ AllRows(input_file.content.stmts, 1) = <<>>
    => last.fp = None

\* The fields of a STMTTRN element that fingerprint() hashes, as the plugin
\* reads them: FITID, TRNAMT, NAME.
HashedFields(row) ==
    <<row.id, row.amt,
      IF last.plugin \in {"ally_bank_ofx", "capital_one_ofx"} THEN row.name
      ELSE OfxString(row.name)>>

\* C29: the input of the digest determines the hashed fields: two anchor rows
\* that differ in the value of a hashed field get different first_row_hash
\* values (OFX files whose anchor is their first STMTTRN).
C29_DigestInputDeterminesFields ==
    /\ last.op = "fingerprint" /\ last.fp # None
    /\ last.plugin \in OfxLayouts /\ input_file.content.layout = last.plugin
    /\ input_file.content.stmts # <<>> /\ Statement.txns # <<>>
    => \A c \in SameLayoutFiles :
          LET other == fingerprint(c.layout, [content |-> c, pos |-> 0]).value
          IN  /\ c.stmts[1].txns # <<>> /\ other # None
              /\ HashedFields(c.stmts[1].txns[1]) # HashedFields(Statement.txns[1])
              => other[1].first_row_hash # last.fp[1].first_row_hash

\* C30: extract() of the BAC credit plugin is all-or-nothing: it raises before
\* it yields any record, or it yields the whole sequence without raising.
C30_BacCreditAllOrNothing ==
    /\ last.op = "extract" /\ last.plugin = "bac_san_jose_credit"
    /\ last.raised
    => last.txns = <<>>

====
